---- MODULE Spec2Model ----
(***************************************************************************)
(* The ASCII tree renderer getVisualTreeString of src/dom-utils.js, in its *)
(* two versions (the polymorphic one, lines 123-428, and the binary-only   *)
(* one, lines 488-747), called on trees built from the node classes of     *)
(* src/tree.js and src/binary-tree.js.                                     *)
(*                                                                         *)
(* Text is a sequence of one-character strings; a node reference is a      *)
(* positive integer (its identity), Null is the absent reference.          *)
(***************************************************************************)
EXTENDS Integers, Sequences, FiniteSets, TLC

\* ------------------------------------------------------------------ bounds
\* Largest number of nodes of an input tree of the renderer, and of a tree
\* whose nodes take every choice of values.
MaxNodes == 3

\* Largest number of children of the root of a wide input tree.
MaxChildren == 4

\* Largest number of nodes of a tree the BinaryTree methods run on.
MaxTreeNodes == 5

\* --------------------------------------------------------------- constants
FooterLen == 42
leftPadding == 1
VERTICAL_SLASH_ROWS_PER_HORIZONTAL_OFFSET_UNIT == 1

\* ------------------------------------------------------------ basic values
Null == 0
\* An optional property: <<>> when the property is undefined, <<v>> otherwise.
Undefined == <<>>
Def(v) == <<v>>

Max(a, b) == IF a >= b THEN a ELSE b
Min(a, b) == IF a <= b THEN a ELSE b
Abs(a) == IF a < 0 THEN 0 - a ELSE a

\* Math.round of the rational num / den (den > 0): the nearest integer, a
\* half rounding towards plus infinity.
MathRound(num, den) == (2 * num + den) \div (2 * den)

\* Math.floor(w / 2) and Math.ceil(w / 2).
FloorHalf(w) == w \div 2
CeilHalf(w) == (w + 1) \div 2

\* 2^n
RECURSIVE Pow2(_)
Pow2(n) == IF n <= 0 THEN 1 ELSE 2 * Pow2(n - 1)

\* -------------------------------------------------------------------- text
Digit(d) ==
  CASE d = 0 -> "0" [] d = 1 -> "1" [] d = 2 -> "2" [] d = 3 -> "3"
    [] d = 4 -> "4" [] d = 5 -> "5" [] d = 6 -> "6" [] d = 7 -> "7"
    [] d = 8 -> "8" [] d = 9 -> "9"

RECURSIVE NatString(_)
NatString(n) ==
  IF n < 10 THEN <<Digit(n)>> ELSE NatString(n \div 10) \o <<Digit(n % 10)>>

\* String(v) of an integer v.
NumberString(v) == IF v < 0 THEN <<"-">> \o NatString(0 - v) ELSE NatString(v)

UndefinedString == <<"u", "n", "d", "e", "f", "i", "n", "e", "d">>
PlaceholderString == <<"[", "?", "]">>
HighlightMarker == <<" ", "(", "*", ")">>
EmptyTreeString ==
  <<"<", "e", "m", "p", "t", "y", " ", "t", "r", "e", "e", ">">>
EmptyRepresentationString ==
  <<"<", "e", "m", "p", "t", "y", " ", "t", "r", "e", "e", " ", "r", "e", "p",
    "r", "e", "s", "e", "n", "t", "a", "t", "i", "o", "n", ">">>
NoPositionsString ==
  <<"<", "e", "r", "r", "o", "r", ":", " ", "n", "o", " ", "n", "o", "d", "e",
    " ", "p", "o", "s", "i", "t", "i", "o", "n", "s", " ", "c", "a", "l", "c",
    "u", "l", "a", "t", "e", "d", ">">>

\* String(x) of an optional number.
StringOf(opt) == IF opt = Undefined THEN UndefinedString ELSE NumberString(opt[1])

\* lines.join("\n")
RECURSIVE JoinLines(_)
JoinLines(lines) ==
  IF Len(lines) = 0 THEN <<>>
  ELSE IF Len(lines) = 1 THEN lines[1]
  ELSE lines[1] \o <<"\n">> \o JoinLines(Tail(lines))

\* row.trimEnd(): the row without its trailing blanks.
RECURSIVE TrimEnd(_)
TrimEnd(s) ==
  IF Len(s) = 0 THEN s
  ELSE IF s[Len(s)] = " " THEN TrimEnd(SubSeq(s, 1, Len(s) - 1))
  ELSE s

\* A slip: the header without its leading line break.
HeaderWithoutLineBreak(logContext) ==
  <<"-", "-", "-", " ">> \o logContext \o <<" ", "-", "-", "-">>

\* `\n--- ${logContext} ---`
Header(logContext) ==
  <<"\n", "-", "-", "-", " ">> \o logContext \o <<" ", "-", "-", "-">>

Footer == [i \in 1..FooterLen |-> "-"]

\* ------------------------------------------------------------------- nodes
\* new BinaryTreeNode(val, left, right) of the first BinaryTree file.
ValNode(v, l, r) ==
  [value |-> Undefined, val |-> v, left |-> l, right |-> r,
   isArray |-> FALSE, children |-> <<>>]

\* new BinaryTreeNode(value, leftChild, rightChild) of the second file.
ValueNode(v, l, r) ==
  [value |-> v, val |-> Undefined, left |-> l, right |-> r,
   isArray |-> FALSE, children |-> <<>>]

\* new TreeNode(val, children): no left/right property (falsy, as Null).
TreeNode(v, kids) ==
  [value |-> Undefined, val |-> v, left |-> Null, right |-> Null,
   isArray |-> TRUE, children |-> kids]

\* ------------------------------------------------------------- input trees
\* Binary shapes: sets of heap positions (root 1, children 2i and 2i+1)
\* closed under parent.
RECURSIVE BinaryShapes(_)
BinaryShapes(k) ==
  IF k = 0 THEN {{}}
  ELSE LET smaller == BinaryShapes(k - 1)
       IN smaller \cup
          UNION { { S \cup {c} :
                      c \in IF S = {} THEN {1}
                            ELSE {c2 \in UNION {{2 * i, 2 * i + 1} : i \in S} :
                                    c2 \notin S} } :
                  S \in {T \in smaller : Cardinality(T) = k - 1} }

\* Ordered (n-ary) shapes: parent vectors in preorder numbering: node 1 is
\* the root, the parent of node i > 1 is node i - 1 or one of its ancestors.
RECURSIVE AncestorsOrSelf(_, _)
AncestorsOrSelf(p, i) == IF i = 0 THEN {} ELSE {i} \cup AncestorsOrSelf(p, p[i])

RECURSIVE OrderedShapes(_)
OrderedShapes(k) ==
  IF k = 0 THEN {}
  ELSE IF k = 1 THEN {<<0>>}
  ELSE LET smaller == OrderedShapes(k - 1)
       IN smaller \cup
          { Append(p, q) :
              p \in {t \in smaller : Len(t) = k - 1},
              q \in 1..(k - 1) }

IsPreorder(p) ==
  \A i \in 2..Len(p) : p[i] \in AncestorsOrSelf(p, i - 1)

\* The children of node i of a parent vector, in order.
RECURSIVE KidsFrom(_, _, _)
KidsFrom(p, i, j) ==
  IF j > Len(p) THEN <<>>
  ELSE (IF p[j] = i THEN <<j>> ELSE <<>>) \o KidsFrom(p, i, j + 1)

\* How the values of an input tree are chosen from the node references.
Schemes == {"index", "same", "negative", "missing"}

SchemeValue(scheme, i) ==
  CASE scheme = "index" -> Def(i)
    [] scheme = "same" -> Def(5)
    [] scheme = "negative" -> Def(0 - 11 * i)
    [] scheme = "missing" -> Undefined

Kinds == {"val", "value", "nary"}

BinaryHeap(kind, S, scheme) ==
  [i \in S |->
     LET l == IF 2 * i \in S THEN 2 * i ELSE Null
         r == IF 2 * i + 1 \in S THEN 2 * i + 1 ELSE Null
     IN IF kind = "val" THEN ValNode(SchemeValue(scheme, i), l, r)
        ELSE ValueNode(SchemeValue(scheme, i), l, r)]

OrderedHeap(p, scheme) ==
  [i \in 1..Len(p) |-> TreeNode(SchemeValue(scheme, i), KidsFrom(p, i, 1))]

\* The parent vector of a root with k children and no other node.
StarShape(k) == [i \in 1..(k + 1) |-> IF i = 1 THEN 0 ELSE 1]

\* The wide trees: a root with MaxNodes to MaxChildren children.
WideHeaps ==
  { OrderedHeap(StarShape(k), scheme) :
      k \in MaxNodes..MaxChildren, scheme \in Schemes }

InputHeaps ==
  { BinaryHeap(kind, S, scheme) :
      kind \in {"val", "value"}, S \in BinaryShapes(MaxNodes), scheme \in Schemes }
  \cup
  { OrderedHeap(p, scheme) :
      p \in {q \in OrderedShapes(MaxNodes) : IsPreorder(q)}, scheme \in Schemes }
  \cup WideHeaps

Labels == { <<"x">>, <<"t", "1">> }

\* ------------------------------------------------- getVisualTreeString
\* The renderer's version: 1 is the polymorphic one, 2 the binary-only one.
Versions == {1, 2}

\* A slip: the marker is added whenever the highlight set has a member.
getDisplayValueAnyHighlight(v, heap, highlightedNodes, n) ==
  LET node == heap[n]
      nodeDisplayVal == IF node.value # Undefined THEN node.value ELSE node.val
      display ==
        IF v = 1
        THEN IF nodeDisplayVal = Undefined THEN PlaceholderString
             ELSE StringOf(nodeDisplayVal)
        ELSE StringOf(node.value)
  IN IF highlightedNodes # {} THEN display \o HighlightMarker ELSE display

getDisplayValue(v, heap, highlightedNodes, n) ==
  LET node == heap[n]
      nodeDisplayVal == IF node.value # Undefined THEN node.value ELSE node.val
      display ==
        IF v = 1
        THEN IF nodeDisplayVal = Undefined THEN PlaceholderString
             ELSE StringOf(nodeDisplayVal)
        ELSE StringOf(node.value)
  IN IF n \in highlightedNodes THEN display \o HighlightMarker ELSE display

\* A slip: the children array is never looked at.
ChildrenToLayoutBinaryOnly(heap, n) ==
  (IF heap[n].left # Null THEN <<heap[n].left>> ELSE <<>>)
  \o (IF heap[n].right # Null THEN <<heap[n].right>> ELSE <<>>)

\* The children the polymorphic version visits at a node: the binary pair
\* when either is present, else the children array.
ChildrenToLayout(heap, n) ==
  LET node == heap[n]
  IN IF node.left # Null \/ node.right # Null
     THEN (IF node.left # Null THEN <<node.left>> ELSE <<>>)
          \o (IF node.right # Null THEN <<node.right>> ELSE <<>>)
     ELSE IF node.isArray THEN node.children
     ELSE <<>>

\* The children the binary-only version visits: left, then right.
BinaryChildren(heap, n) ==
  (IF heap[n].left # Null THEN <<heap[n].left>> ELSE <<>>)
  \o (IF heap[n].right # Null THEN <<heap[n].right>> ELSE <<>>)

ChildrenOf(v, heap, n) ==
  IF v = 1 THEN ChildrenToLayout(heap, n) ELSE BinaryChildren(heap, n)

\* The largest level reached from node n, itself at `level` (0 when absent:
\* the running maximum starts at 0).
RECURSIVE calculateActualFullTreeDepth(_, _, _)
RECURSIVE DepthOfEach(_, _, _, _)
DepthOfEach(heap, kids, i, level) ==
  IF i > Len(kids) THEN 0
  ELSE Max(calculateActualFullTreeDepth(heap, kids[i], level),
           DepthOfEach(heap, kids, i + 1, level))
calculateActualFullTreeDepth(heap, n, level) ==
  IF n = Null THEN 0
  ELSE Max(level, DepthOfEach(heap, ChildrenToLayout(heap, n), 1, level + 1))

RECURSIVE findTreeMaxLevels(_, _, _)
findTreeMaxLevels(heap, n, level) ==
  IF n = Null THEN 0
  ELSE Max(level, Max(findTreeMaxLevels(heap, heap[n].left, level + 1),
                      findTreeMaxLevels(heap, heap[n].right, level + 1)))

FullTreeDepth(v, heap, rootNode) ==
  IF v = 1 THEN calculateActualFullTreeDepth(heap, rootNode, 0)
  ELSE findTreeMaxLevels(heap, rootNode, 0)

initialXOffset(depth) == IF depth > 0 THEN Pow2(depth - 1) * 2 ELSE 1

\* A slip: the half-span is handed down unhalved.
xOffsetKept(xOffsetAvailable) == xOffsetAvailable

\* The half-span handed to the children of a node's children.
xOffsetForNextLevel(xOffsetAvailable) == Max(1, MathRound(xOffsetAvailable, 2))

\* A slip: one row of line drawing whatever the offset.
numSlashRowsAlwaysOne(xOffsetAvailable) == 1

\* A slip: no row is left for the lines between a node and its children.
numSlashRowsNone(xOffsetAvailable) == 0

\* The rows of line drawing between a node and its children.
numSlashRowsForChildren(xOffsetAvailable) ==
  Max(1, MathRound(VERTICAL_SLASH_ROWS_PER_HORIZONTAL_OFFSET_UNIT * xOffsetAvailable, 1))

\* A slip: both binary children on the left of the parent.
ChildXBothLeft(heap, parentNode, childNode, i, k, parentX, xOffsetAvailable) ==
  LET node == heap[parentNode]
  IN IF node.left # Null \/ node.right # Null
     THEN IF node.left # Null /\ node.right # Null
          THEN parentX - xOffsetAvailable
          ELSE parentX
     ELSE IF k = 1 THEN parentX
     ELSE MathRound(parentX * (k - 1) + (2 * i - (k - 1)) * xOffsetAvailable, k - 1)

\* A slip: a single binary child spread like one of two.
ChildXSpreadSingle(heap, parentNode, childNode, i, k, parentX, xOffsetAvailable) ==
  LET node == heap[parentNode]
  IN IF node.left # Null \/ node.right # Null
     THEN IF childNode = node.left THEN parentX - xOffsetAvailable
          ELSE parentX + xOffsetAvailable
     ELSE IF k = 1 THEN parentX
     ELSE MathRound(parentX * (k - 1) + (2 * i - (k - 1)) * xOffsetAvailable, k - 1)

\* A slip: the children of the array spread by i / k instead of i / (k - 1).
ChildXByCount(heap, parentNode, childNode, i, k, parentX, xOffsetAvailable) ==
  LET node == heap[parentNode]
  IN IF node.left # Null \/ node.right # Null
     THEN IF node.left # Null /\ node.right # Null
          THEN IF childNode = node.left THEN parentX - xOffsetAvailable
               ELSE parentX + xOffsetAvailable
          ELSE parentX
     ELSE IF k = 1 THEN parentX
     ELSE MathRound(parentX * k + (2 * i - k) * xOffsetAvailable, k)

\* The x of child i (0-based) of k children in the polymorphic version.
ChildX(heap, parentNode, childNode, i, k, parentX, xOffsetAvailable) ==
  LET node == heap[parentNode]
  IN IF node.left # Null \/ node.right # Null
     THEN IF node.left # Null /\ node.right # Null
          THEN IF childNode = node.left THEN parentX - xOffsetAvailable
               ELSE parentX + xOffsetAvailable
          ELSE parentX
     ELSE IF k = 1 THEN parentX
     ELSE MathRound(parentX * (k - 1) + (2 * i - (k - 1)) * xOffsetAvailable, k - 1)

Position(n, text, x, y) ==
  [node |-> n, text |-> text, x |-> x, y |-> y, width |-> Len(text)]

\* The entries calculatePositionsRecursive adds to nodePositions for the
\* descendants of parentNode, in insertion order (polymorphic version).
RECURSIVE calculatePositionsRecursive(_, _, _, _, _, _)
RECURSIVE LayoutEach(_, _, _, _, _, _, _, _)
LayoutEach(heap, hl, parentNode, kids, i, parentX, parentY, xOffsetAvailable) ==
  IF i >= Len(kids) THEN <<>>
  ELSE LET childNode == kids[i + 1]
           childrenY == parentY + numSlashRowsForChildren(xOffsetAvailable) + 1
           childX == ChildX(heap, parentNode, childNode, i, Len(kids), parentX,
                            xOffsetAvailable)
       IN <<Position(childNode, getDisplayValue(1, heap, hl, childNode), childX,
                     childrenY)>>
          \o calculatePositionsRecursive(heap, hl, childNode, childX, childrenY,
                                         xOffsetForNextLevel(xOffsetAvailable))
          \o LayoutEach(heap, hl, parentNode, kids, i + 1, parentX, parentY,
                        xOffsetAvailable)
calculatePositionsRecursive(heap, hl, parentNode, parentX, parentY, xOffsetAvailable) ==
  LayoutEach(heap, hl, parentNode, ChildrenToLayout(heap, parentNode), 0, parentX,
             parentY, xOffsetAvailable)

\* The same for the binary-only version: the left child at parentX - offset,
\* the right child at parentX + offset, whether or not the other is present.
RECURSIVE calculatePositionsBinary(_, _, _, _, _, _)
calculatePositionsBinary(heap, hl, parentNode, parentX, parentY, xOffset) ==
  LET childrenY == parentY + numSlashRowsForChildren(xOffset) + 1
      side(childNode, childX) ==
        IF childNode = Null THEN <<>>
        ELSE <<Position(childNode, getDisplayValue(2, heap, hl, childNode), childX,
                        childrenY)>>
             \o calculatePositionsBinary(heap, hl, childNode, childX, childrenY,
                                         xOffsetForNextLevel(xOffset))
  IN side(heap[parentNode].left, parentX - xOffset)
     \o side(heap[parentNode].right, parentX + xOffset)

\* nodePositions.set(entry.node, entry): an existing key keeps its place.
MapSet(map, entry) ==
  IF \E i \in 1..Len(map) : map[i].node = entry.node
  THEN [i \in 1..Len(map) |-> IF map[i].node = entry.node THEN entry ELSE map[i]]
  ELSE Append(map, entry)

RECURSIVE MapSetAll(_, _)
MapSetAll(map, entries) ==
  IF Len(entries) = 0 THEN map
  ELSE MapSetAll(MapSet(map, entries[1]), Tail(entries))

\* nodePositions after the root and its descendants are placed.
NodePositions(v, heap, hl, rootNode, depth) ==
  <<Position(rootNode, getDisplayValue(v, heap, hl, rootNode), 0, 0)>>
  \o (IF v = 1
      THEN calculatePositionsRecursive(heap, hl, rootNode, 0, 0, initialXOffset(depth))
      ELSE calculatePositionsBinary(heap, hl, rootNode, 0, 0, initialXOffset(depth)))

\* ----------------------------------------------------------- canvas sizing
TextStartX(pos) == pos.x - FloorHalf(pos.width)

RECURSIVE MinTextX(_)
MinTextX(positions) ==
  IF Len(positions) = 1 THEN TextStartX(positions[1])
  ELSE Min(TextStartX(positions[1]), MinTextX(Tail(positions)))

RECURSIVE MaxTextX(_)
MaxTextX(positions) ==
  LET last(pos) == pos.x + CeilHalf(pos.width) - 1
  IN IF Len(positions) = 1 THEN last(positions[1])
     ELSE Max(last(positions[1]), MaxTextX(Tail(positions)))

RECURSIVE MaxY(_)
MaxY(positions) ==
  IF Len(positions) = 0 THEN 0 ELSE Max(positions[1].y, MaxY(Tail(positions)))

xShift(positions) == IF MinTextX(positions) < 0 THEN 0 - MinTextX(positions) ELSE 0

\* pos.x += xShift + leftPadding, for every entry.
ShiftPositions(positions) ==
  [i \in 1..Len(positions) |->
     [positions[i] EXCEPT !.x = @ + xShift(positions) + leftPadding]]

\* A slip: the width stops at the last text column.
CanvasWidthTight(positions) == MaxTextX(positions) + xShift(positions) + leftPadding

CanvasWidth(positions) == MaxTextX(positions) + xShift(positions) + leftPadding + 2
\* A slip: the height of the root's row alone.
CanvasHeightOfRoot(maxY) == 1

CanvasHeight(maxY) == maxY + 1

BlankCanvas(w, h) == [y \in 0..(h - 1) |-> [x \in 0..(w - 1) |-> " "]]

InCanvas(x, y, w, h) == x >= 0 /\ x < w /\ y >= 0 /\ y < h

\* The cells of one node's text that lie inside the canvas.
TextCellsOf(pos, w, h) ==
  { <<TextStartX(pos) + k, pos.y>> : k \in 0..(Len(pos.text) - 1) }
  \cap ((0..(w - 1)) \X (0..(h - 1)))

NodeTextCells(positions, w, h) ==
  UNION { TextCellsOf(positions[i], w, h) : i \in 1..Len(positions) }

\* ------------------------------------------------------- drawLineOnCanvas
\* A slip: the loop gives up after one iteration.
RECURSIVE LineLoopCapOne(_, _, _, _, _, _, _, _, _)
LineLoopCapOne(x1, y1, err, iterations, line, canvas, cells, w, h) ==
  LET maxIterations == 1
      atEnd(x, y) == x = line.x2 /\ y = line.y2
      drawn == IF <<x1, y1>> \notin cells /\ InCanvas(x1, y1, w, h)
               THEN [canvas EXCEPT ![y1][x1] = line.char]
               ELSE canvas
      e2 == 2 * err
      stepX == e2 >= line.dy
      stepY == e2 <= line.dx
      xAfter == IF stepX THEN x1 + line.sx ELSE x1
      errAfterX == IF stepX THEN err + line.dy ELSE err
  IN IF ~(iterations < maxIterations)
     THEN [canvas |-> canvas, exit |-> "cap", iterations |-> iterations]
     ELSE IF atEnd(x1, y1) \/ (stepY /\ atEnd(xAfter, y1))
     THEN [canvas |-> drawn, exit |-> "end", iterations |-> iterations + 1]
     ELSE LineLoopCapOne(xAfter, IF stepY THEN y1 + line.sy ELSE y1,
                         IF stepY THEN errAfterX + line.dx ELSE errAfterX,
                         iterations + 1, line, drawn, cells, w, h)

\* The loop of drawLineOnCanvas from its state (x1, y1, err, iterations):
\* the canvas it leaves, and whether it ended at the end point or at the cap.
RECURSIVE LineLoop(_, _, _, _, _, _, _, _, _)
LineLoop(x1, y1, err, iterations, line, canvas, cells, w, h) ==
  LET maxIterations == h * w * 2
      atEnd(x, y) == x = line.x2 /\ y = line.y2
      drawn == IF <<x1, y1>> \notin cells /\ InCanvas(x1, y1, w, h)
               THEN [canvas EXCEPT ![y1][x1] = line.char]
               ELSE canvas
      e2 == 2 * err
      stepX == e2 >= line.dy
      stepY == e2 <= line.dx
      xAfter == IF stepX THEN x1 + line.sx ELSE x1
      errAfterX == IF stepX THEN err + line.dy ELSE err
  IN IF ~(iterations < maxIterations)
     THEN [canvas |-> canvas, exit |-> "cap", iterations |-> iterations]
     ELSE IF atEnd(x1, y1) \/ (stepY /\ atEnd(xAfter, y1))
     THEN [canvas |-> drawn, exit |-> "end", iterations |-> iterations + 1]
     ELSE LineLoop(xAfter, IF stepY THEN y1 + line.sy ELSE y1,
                   IF stepY THEN errAfterX + line.dx ELSE errAfterX,
                   iterations + 1, line, drawn, cells, w, h)

drawLineOnCanvas(x1, y1, x2, y2, char, canvas, cells, w, h) ==
  LET dx == Abs(x2 - x1)
      dy == 0 - Abs(y2 - y1)
  IN LineLoop(x1, y1, dx + dy, 0,
              [x2 |-> x2, y2 |-> y2, char |-> char, dx |-> dx, dy |-> dy,
               sx |-> IF x1 < x2 THEN 1 ELSE -1, sy |-> IF y1 < y2 THEN 1 ELSE -1],
              canvas, cells, w, h)

\* ------------------------------------------------------- connection lines
PositionOf(positions, n) ==
  LET hits == {i \in 1..Len(positions) : positions[i].node = n}
  IN IF hits = {} THEN Undefined ELSE Def(positions[CHOOSE i \in hits : TRUE])

\* The (parent, child) pairs in the order the line loop visits them: the
\* entries of nodePositions in insertion order, each with its children.
RECURSIVE EdgesOfParent(_, _, _, _)
EdgesOfParent(v, heap, parent, kids) ==
  IF Len(kids) = 0 THEN <<>>
  ELSE <<[parent |-> parent, child |-> kids[1],
          side |-> IF kids[1] = heap[parent].left THEN "left" ELSE "right"]>>
       \o EdgesOfParent(v, heap, parent, Tail(kids))

RECURSIVE EdgesToDraw(_, _, _, _)
EdgesToDraw(v, heap, positions, i) ==
  IF i > Len(positions) THEN <<>>
  ELSE EdgesOfParent(v, heap, positions[i].node,
                     ChildrenOf(v, heap, positions[i].node))
       \o EdgesToDraw(v, heap, positions, i + 1)

\* A slip: the vertical run stops one row above its last row.
RECURSIVE VerticalLineShort(_, _, _, _, _, _, _)
VerticalLineShort(Px, y, lineEndY, canvas, cells, w, h) ==
  IF y >= lineEndY THEN canvas
  ELSE VerticalLineShort(Px, y + 1, lineEndY,
                         IF InCanvas(Px, y, w, h) /\ <<Px, y>> \notin cells
                         THEN [canvas EXCEPT ![y][Px] = "|"] ELSE canvas,
                         cells, w, h)

RECURSIVE VerticalLine(_, _, _, _, _, _, _)
VerticalLine(Px, y, lineEndY, canvas, cells, w, h) ==
  IF y > lineEndY THEN canvas
  ELSE VerticalLine(Px, y + 1, lineEndY,
                    IF InCanvas(Px, y, w, h) /\ <<Px, y>> \notin cells
                    THEN [canvas EXCEPT ![y][Px] = "|"] ELSE canvas,
                    cells, w, h)

\* The canvas after the line of one (parent, child) pair, polymorphic version.
ConnectPolymorphic(edge, positions, canvas, cells, w, h) ==
  LET parentInfo == PositionOf(positions, edge.parent)[1]
      found == PositionOf(positions, edge.child)
      Px == parentInfo.x
      Py == parentInfo.y
      Cx == found[1].x
      Cy == found[1].y
      lineStartY == Py + 1
      lineEndY == Cy - 1
      slashChar == IF Cx < Px THEN "/" ELSE "\\"
      lineStartX == IF slashChar = "/" THEN Max(0, Px - 1) ELSE Min(w - 1, Px + 1)
  IN IF edge.child = Null \/ found = Undefined THEN canvas
     ELSE IF Cy <= Py THEN canvas
     ELSE IF Cx = Px THEN VerticalLine(Px, lineStartY, lineEndY, canvas, cells, w, h)
     ELSE IF lineStartY <= lineEndY
     THEN drawLineOnCanvas(lineStartX, lineStartY, Cx, lineEndY, slashChar, canvas,
                           cells, w, h).canvas
     ELSE canvas

\* The same for the binary-only version: the glyph follows the child's side.
ConnectBinary(edge, positions, canvas, cells, w, h) ==
  LET parentInfo == PositionOf(positions, edge.parent)[1]
      found == PositionOf(positions, edge.child)
      Px == parentInfo.x
      Py == parentInfo.y
      Cx == found[1].x
      Cy == found[1].y
      lineStartY == Py + 1
      lineEndY == Cy - 1
      slashChar == IF edge.side = "left" THEN "/" ELSE "\\"
      lineStartX == IF slashChar = "/" THEN Px - 1 ELSE Px + 1
  IN IF edge.child = Null \/ found = Undefined THEN canvas
     ELSE IF Cy <= Py THEN canvas
     ELSE IF lineStartY <= lineEndY
     THEN drawLineOnCanvas(lineStartX, lineStartY, Cx, lineEndY, slashChar, canvas,
                           cells, w, h).canvas
     ELSE canvas

\* A slip: the line runs from the parent's own cell to the child's own cell
\* and skips no reserved cell.
DrawConnectionOverText(v, edge, positions, canvas, cells, w, h) ==
  LET parentInfo == PositionOf(positions, edge.parent)[1]
      childInfo == PositionOf(positions, edge.child)[1]
  IN VerticalLine(parentInfo.x, parentInfo.y, childInfo.y, canvas, {}, w, h)

DrawConnection(v, edge, positions, canvas, cells, w, h) ==
  IF v = 1 THEN ConnectPolymorphic(edge, positions, canvas, cells, w, h)
  ELSE ConnectBinary(edge, positions, canvas, cells, w, h)

\* What the line loop hands to drawLineOnCanvas for one (parent, child)
\* pair: the start next to the parent on the row below it, the end in the
\* child's column on the row above the child.
LineArguments(v, edge, positions, w) ==
  LET parentInfo == PositionOf(positions, edge.parent)[1]
      childInfo == PositionOf(positions, edge.child)[1]
      Px == parentInfo.x
      slashChar == IF v = 1
                   THEN (IF childInfo.x < Px THEN "/" ELSE "\\")
                   ELSE (IF edge.side = "left" THEN "/" ELSE "\\")
  IN [x1 |-> IF v = 1
             THEN (IF slashChar = "/" THEN Max(0, Px - 1) ELSE Min(w - 1, Px + 1))
             ELSE (IF slashChar = "/" THEN Px - 1 ELSE Px + 1),
      y1 |-> parentInfo.y + 1,
      x2 |-> childInfo.x,
      y2 |-> childInfo.y - 1,
      char |-> slashChar]

\* ------------------------------------------------------------ text overlay
\* A slip: the text loop stops one character early.
RECURSIVE StampTextShort(_, _, _, _, _)
StampTextShort(pos, k, canvas, w, h) ==
  IF k >= Len(pos.text) - 1 THEN canvas
  ELSE StampTextShort(pos, k + 1,
                      IF InCanvas(TextStartX(pos) + k, pos.y, w, h)
                      THEN [canvas EXCEPT ![pos.y][TextStartX(pos) + k] = pos.text[k + 1]]
                      ELSE canvas,
                      w, h)

RECURSIVE StampText(_, _, _, _, _)
StampText(pos, k, canvas, w, h) ==
  IF k >= Len(pos.text) THEN canvas
  ELSE StampText(pos, k + 1,
                 IF InCanvas(TextStartX(pos) + k, pos.y, w, h)
                 THEN [canvas EXCEPT ![pos.y][TextStartX(pos) + k] = pos.text[k + 1]]
                 ELSE canvas,
                 w, h)

RECURSIVE StampAll(_, _, _, _, _)
StampAll(positions, i, canvas, w, h) ==
  IF i > Len(positions) THEN canvas
  ELSE StampAll(positions, i + 1, StampText(positions[i], 0, canvas, w, h), w, h)

\* ----------------------------------------------------------- serialization
RowString(canvas, y, w) == [i \in 1..w |-> canvas[y][i - 1]]

TreeLines(canvas, w, h) == [i \in 1..h |-> TrimEnd(RowString(canvas, i - 1, w))]

\* The polymorphic version keeps every line (length > 0 or equal to ""),
\* the binary-only version drops the empty ones.
FilteredTreeLines(v, lines) ==
  IF v = 1 THEN SelectSeq(lines, LAMBDA line : Len(line) > 0 \/ line = <<>>)
  ELSE SelectSeq(lines, LAMBDA line : Len(line) > 0)

\* The returned string of a non-empty root, from the filtered lines.
Serialized(v, logContext, filtered, positions, canvas, w, h, rootText) ==
  IF v = 1 /\ Len(filtered) = 0 /\ Len(positions) > 0 /\ h > 0
  THEN JoinLines(<<Header(logContext), TrimEnd(RowString(canvas, 0, w)), Footer>>)
  ELSE IF Len(filtered) = 0
  THEN JoinLines(<<Header(logContext),
                   IF v = 1 THEN rootText ELSE EmptyRepresentationString, Footer>>)
  ELSE JoinLines(<<Header(logContext)>> \o filtered \o <<Footer>>)

\* The template literal Tree.log prints for an empty tree.
LogEmptyFrame(context) ==
  <<"\n", "-", "-", "-", " ">> \o context \o <<" ", "-", "-", "-", "\n">>
  \o EmptyTreeString \o <<"\n">> \o [i \in 1..FooterLen |-> "-"]

\* A slip: the fallback text of the binary-only version for the empty tree.
EmptyTreeResultAsRepresentation(logContext) ==
  <<"\n", "-", "-", "-", " ">> \o logContext \o <<" ", "-", "-", "-", "\n">>
  \o EmptyRepresentationString \o <<"\n">> \o [i \in 1..FooterLen |-> "-"]

EmptyTreeResult(logContext) ==
  JoinLines(<<Header(logContext), EmptyTreeString, Footer>>)

\* ------------------------------------------------------- the whole render
RECURSIVE DrawConnections(_, _, _, _, _, _, _)
DrawConnections(v, edges, positions, canvas, cells, w, h) ==
  IF Len(edges) = 0 THEN canvas
  ELSE DrawConnections(v, Tail(edges), positions,
                       DrawConnection(v, edges[1], positions, canvas, cells, w, h),
                       cells, w, h)

\* The body rows getVisualTreeString produces for a tree with a root.
RenderedBody(v, h, root, highlights) ==
  LET depth == FullTreeDepth(v, h, root)
      placed == NodePositions(v, h, highlights, root, depth)
      positions == ShiftPositions(placed)
      width == CanvasWidth(placed)
      height == CanvasHeight(MaxY(placed))
      cells == NodeTextCells(positions, width, height)
      lined == DrawConnections(v, EdgesToDraw(v, h, positions, 1), positions,
                               BlankCanvas(width, height), cells, width, height)
      stamped == StampAll(positions, 1, lined, width, height)
  IN FilteredTreeLines(v, TreeLines(stamped, width, height))

\* The depth of the tree under node n, by every child link a node has.
RECURSIVE TreeDepth(_, _)
TreeDepth(h, n) ==
  LET kids == ({h[n].left, h[n].right} \ {Null})
              \cup {h[n].children[i] : i \in 1..Len(h[n].children)}
  IN IF kids = {} THEN 0
     ELSE 1 + (CHOOSE d \in {TreeDepth(h, k) : k \in kids} :
                 \A e \in {TreeDepth(h, k) : k \in kids} : d >= e)

\* The renderer's version, the depth and the number of body rows of every
\* input tree with a root: every tree for the polymorphic version, the
\* binary trees for the binary-only version.
RowCounts ==
  { <<v, TreeDepth(g, 1), Len(RenderedBody(v, g, 1, highlights))>> :
      v \in Versions,
      g \in {t \in InputHeaps : DOMAIN t # {}},
      highlights \in {{}, {1}} }
  \ { <<2, TreeDepth(g, 1), Len(RenderedBody(2, g, 1, highlights))>> :
        g \in {t \in InputHeaps : DOMAIN t # {} /\ t[1].isArray},
        highlights \in {{}, {1}} }

\* ==================================================== src/binary-tree.js
\* The two BinaryTree classes: the first (lines 11-327) on nodes with 'val',
\* the second (lines 358-902, private #root) on nodes with 'value'.
Impls == {1, 2}

\* The finite values of the nodes of an input tree.
Values == {-3, -1, 0, 2}

\* The number Infinity, above every finite number of the model. It is only
\* stored, written and read, never added or compared.
Infinity == Pow2(10)

\* The value null where a number may stand: in an array of values, as a
\* returned value, as a running minimum.
NullValue == <<"n", "u", "l", "l">>

\* -Infinity as the running maximum before any sum is seen.
NegInfinity == <<>>

\* Math.max(m, x) for a running maximum m.
MathMax(m, x) == IF m = NegInfinity THEN Def(x) ELSE Def(Max(m[1], x))

\* node.val in the first class, node.value in the second; a number.
NodeValue(impl, node) == IF impl = 1 THEN node.val[1] ELSE node.value[1]

\* new BinaryTreeNode(v) of the class's file.
NewNode(impl, v) ==
  IF impl = 1 THEN ValNode(Def(v), Null, Null) ELSE ValueNode(Def(v), Null, Null)

\* A binary tree of shape S whose node i holds f[i].
ValuedHeap(impl, S, f) ==
  [i \in S |->
     LET l == IF 2 * i \in S THEN 2 * i ELSE Null
         r == IF 2 * i + 1 \in S THEN 2 * i + 1 ELSE Null
     IN IF impl = 1 THEN ValNode(Def(f[i]), l, r) ELSE ValueNode(Def(f[i]), l, r)]

\* The values of the larger trees: one value everywhere, or two values by
\* the parity of the node's place.
LargeValuations(S) ==
  { [i \in S |-> 2], [i \in S |-> IF i % 2 = 0 THEN 0 - 1 ELSE 2] }

\* The trees a BinaryTree of class impl is built on: every shape of up to
\* MaxNodes nodes with every choice of finite values, the shapes of up to
\* MaxTreeNodes nodes with a few, and every small shape with Infinity at one
\* node.
TreeHeaps(impl) ==
  UNION { { ValuedHeap(impl, S, f) : f \in [S -> Values] } :
            S \in BinaryShapes(MaxNodes) }
  \cup
  UNION { { ValuedHeap(impl, S, f) : f \in LargeValuations(S) } :
            S \in BinaryShapes(MaxTreeNodes) }
  \cup
  UNION { { ValuedHeap(impl, S, [i \in S |-> IF i = m THEN Infinity ELSE 2]) :
              m \in S } :
            S \in BinaryShapes(MaxNodes) }

\* Every value of the tree is finite.
FiniteTree(impl, tree) == \A n \in DOMAIN tree : NodeValue(impl, tree[n]) # Infinity

\* The lower bounds a caller passes to nextLarger.
LowerBounds == {-4, -2, -1, 0, 1, 2}

\* A slip of the first maxSum: a new tracker starts past its left subtree.
createPathTrackerPastLeft(n) ==
  [node |-> n, visitState |-> "left", leftSum |-> 0, rightSum |-> 0]

\* ------------------------------------------------------------ maxSum, first
\* _createPathTracker(node)
createPathTracker(n) ==
  [node |-> n, visitState |-> "visiting", leftSum |-> 0, rightSum |-> 0]

\* _calculateNodePathSum(tracker)
calculateNodePathSum(tree, tracker) ==
  NodeValue(1, tree[tracker.node]) + tracker.leftSum + tracker.rightSum

\* A slip: the child's sum always lands in the parent's leftSum.
updateParentSumAlwaysLeft(tree, stack) ==
  IF Len(stack) < 2 THEN stack
  ELSE LET child == stack[Len(stack)]
           childBestPath == Max(child.leftSum, child.rightSum)
           newPathSum == Max(0, NodeValue(1, tree[child.node]) + childBestPath)
       IN [stack EXCEPT ![Len(stack) - 1].leftSum = newPathSum]

\* _updateParentSum(stack): the stack with the parent's sum updated.
updateParentSum(tree, stack) ==
  IF Len(stack) < 2 THEN stack
  ELSE LET child == stack[Len(stack)]
           parent == stack[Len(stack) - 1]
           childBestPath == Max(child.leftSum, child.rightSum)
           newPathSum == Max(0, NodeValue(1, tree[child.node]) + childBestPath)
       IN IF parent.visitState = "left"
          THEN [stack EXCEPT ![Len(stack) - 1].leftSum = newPathSum]
          ELSE [stack EXCEPT ![Len(stack) - 1].rightSum = newPathSum]

Pop(stack) == SubSeq(stack, 1, Len(stack) - 1)

\* One turn of the loop of the first maxSum: the stack and the maximum after it.
MaxSumTurn1(tree, stack, maxSum) ==
  LET top == Len(stack)
      current == stack[top]
  IN CASE current.visitState = "visiting" ->
            LET marked == [stack EXCEPT ![top].visitState = "left"]
            IN [stack |-> IF tree[current.node].left # Null
                          THEN Append(marked, createPathTracker(tree[current.node].left))
                          ELSE marked,
                maxSum |-> maxSum]
       [] current.visitState = "left" ->
            LET marked == [stack EXCEPT ![top].visitState = "right"]
            IN [stack |-> IF tree[current.node].right # Null
                          THEN Append(marked, createPathTracker(tree[current.node].right))
                          ELSE marked,
                maxSum |-> maxSum]
       [] current.visitState = "right" ->
            [stack |-> Pop(updateParentSum(tree, stack)),
             maxSum |-> MathMax(maxSum, calculateNodePathSum(tree, current))]
       [] OTHER -> [stack |-> stack, maxSum |-> maxSum]

\* ----------------------------------------------------------- maxSum, second
visitLeft == "visitLeft"
visitRight == "visitRight"
processNode == "processNode"

\* sums.set(node, sum)
SumsSet(sums, n, sum) ==
  [k \in DOMAIN sums \cup {n} |-> IF k = n THEN sum ELSE sums[k]]

\* One turn of the loop of the second maxSum.
MaxSumTurn2(tree, stack, sums, maxSum) ==
  LET top == Len(stack)
      current == stack[top]
      node == tree[current.node]
  IN CASE current.phase = visitLeft ->
            LET marked == [stack EXCEPT ![top].phase = visitRight]
            IN [stack |-> IF node.left # Null
                          THEN Append(marked, [node |-> node.left, phase |-> visitLeft])
                          ELSE marked,
                sums |-> sums, maxSum |-> maxSum]
       [] current.phase = visitRight ->
            LET marked == [stack EXCEPT ![top].phase = processNode]
            IN [stack |-> IF node.right # Null
                          THEN Append(marked, [node |-> node.right, phase |-> visitLeft])
                          ELSE marked,
                sums |-> sums, maxSum |-> maxSum]
       [] OTHER ->
            LET leftSum == IF node.left # Null THEN sums[node.left] ELSE 0
                rightSum == IF node.right # Null THEN sums[node.right] ELSE 0
                sumThroughNode ==
                  NodeValue(2, node) + Max(0, leftSum) + Max(0, rightSum)
                sumForParent == NodeValue(2, node) + Max(0, Max(leftSum, rightSum))
            IN [stack |-> Pop(stack),
                sums |-> SumsSet(sums, current.node, sumForParent),
                maxSum |-> MathMax(maxSum, sumThroughNode)]

\* The turn about to run computes the path sum of the node on top: the
\* "right" case of the first maxSum, the processNode branch of the second.
ComputesSum(impl, stack) ==
  IF impl = 1 THEN stack[Len(stack)].visitState = "right"
  ELSE stack[Len(stack)].phase \notin {visitLeft, visitRight}

\* --------------------------------------------------------------- nextLarger
\* _addChildren(node, {}, dataStructure): the left child, then the right one.
addChildren(tree, n, dataStructure) ==
  dataStructure
  \o (IF tree[n].left # Null THEN <<tree[n].left>> ELSE <<>>)
  \o (IF tree[n].right # Null THEN <<tree[n].right>> ELSE <<>>)

\* !nextLargest: null and 0 are falsy.
Falsy(x) == x = NullValue \/ x = Def(0)

\* The loop of the first nextLarger, from its stack and running minimum.
RECURSIVE NextLargerLoop1(_, _, _, _)
NextLargerLoop1(tree, stack, nextLargest, lowerBound) ==
  IF Len(stack) = 0 THEN nextLargest
  ELSE LET n == stack[Len(stack)]
           val == NodeValue(1, tree[n])
           updated ==
             IF val > lowerBound /\ (Falsy(nextLargest) \/ val < nextLargest[1])
             THEN Def(val) ELSE nextLargest
       IN NextLargerLoop1(tree, addChildren(tree, n, Pop(stack)), updated, lowerBound)

nextLarger1(tree, root, lowerBound) ==
  IF root = Null THEN NullValue
  ELSE NextLargerLoop1(tree, <<root>>, NullValue, lowerBound)

\* The loop of the second nextLarger, from its queue and running minimum.
RECURSIVE NextLargerLoop2(_, _, _, _)
NextLargerLoop2(tree, queue, smallestLarger, lowerBound) ==
  IF Len(queue) = 0 THEN smallestLarger
  ELSE LET n == Head(queue)
           value == NodeValue(2, tree[n])
           updated ==
             IF value > lowerBound
                /\ (smallestLarger = NullValue \/ value < smallestLarger[1])
             THEN Def(value) ELSE smallestLarger
       IN NextLargerLoop2(tree, addChildren(tree, n, Tail(queue)), updated, lowerBound)

nextLarger2(tree, root, lowerBound) ==
  IF root = Null THEN NullValue
  ELSE NextLargerLoop2(tree, <<root>>, NullValue, lowerBound)

\* ----------------------------------------------------- lowestCommonAncestor
\* A node outside every input tree, as an argument: new BinaryTreeNode(0).
TargetVal(tree, target) ==
  IF target \in DOMAIN tree THEN tree[target].val[1] ELSE 0

\* The loop of _findNodePath: a depth-first search that compares values.
RECURSIVE FindNodePathLoop(_, _, _)
FindNodePathLoop(tree, stack, target) ==
  IF Len(stack) = 0 THEN NullValue
  ELSE LET top == stack[Len(stack)]
           node == tree[top.node]
           withRight == IF node.right # Null
                        THEN Append(Pop(stack), [node |-> node.right,
                                                 path |-> Append(top.path, node.right)])
                        ELSE Pop(stack)
           withLeft == IF node.left # Null
                       THEN Append(withRight, [node |-> node.left,
                                               path |-> Append(top.path, node.left)])
                       ELSE withRight
       IN IF NodeValue(1, node) = TargetVal(tree, target) THEN Def(top.path)
          ELSE FindNodePathLoop(tree, withLeft, target)

findNodePath(tree, root, target) ==
  IF root = Null \/ target = Null THEN NullValue
  ELSE FindNodePathLoop(tree, <<[node |-> root, path |-> <<root>>]>>, target)

\* The loop over the two paths of the first lowestCommonAncestor.
RECURSIVE LastCommonByValue(_, _, _, _, _)
LastCommonByValue(tree, path1, path2, i, lastCommon) ==
  IF ~(i < Len(path1) /\ i < Len(path2)) THEN lastCommon
  ELSE IF NodeValue(1, tree[path1[i + 1]]) # NodeValue(1, tree[path2[i + 1]])
  THEN lastCommon
  ELSE LastCommonByValue(tree, path1, path2, i + 1, Def(path1[i + 1]))

lowestCommonAncestor1(tree, root, node1, node2) ==
  LET path1 == findNodePath(tree, root, node1)
      path2 == findNodePath(tree, root, node2)
  IN IF path1 = NullValue \/ path2 = NullValue THEN NullValue
     ELSE LastCommonByValue(tree, path1[1], path2[1], 0, NullValue)

\* The loop of findPath: a breadth-first search that compares references.
RECURSIVE FindPathLoop(_, _, _)
FindPathLoop(tree, queue, targetNode) ==
  IF Len(queue) = 0 THEN NullValue
  ELSE LET first == Head(queue)
           node == tree[first.node]
           withLeft == IF node.left # Null
                       THEN Append(Tail(queue), [node |-> node.left,
                                                 path |-> Append(first.path, node.left)])
                       ELSE Tail(queue)
           withRight == IF node.right # Null
                        THEN Append(withLeft, [node |-> node.right,
                                               path |-> Append(first.path, node.right)])
                        ELSE withLeft
       IN IF first.node = targetNode THEN Def(first.path)
          ELSE FindPathLoop(tree, withRight, targetNode)

findPath(tree, root, targetNode) ==
  IF root = Null THEN NullValue
  ELSE FindPathLoop(tree, <<[node |-> root, path |-> <<root>>]>>, targetNode)

\* A slip: the first common node of the two paths, not the last.
FirstCommonByReference(pathToNode1, pathToNode2, i, lca) ==
  IF pathToNode1[1] = pathToNode2[1] THEN Def(pathToNode1[1]) ELSE lca

\* The loop over the two paths of the second lowestCommonAncestor.
RECURSIVE LastCommonByReference(_, _, _, _)
LastCommonByReference(pathToNode1, pathToNode2, i, lca) ==
  IF ~(i < Min(Len(pathToNode1), Len(pathToNode2))) THEN lca
  ELSE IF pathToNode1[i + 1] = pathToNode2[i + 1]
  THEN LastCommonByReference(pathToNode1, pathToNode2, i + 1, Def(pathToNode1[i + 1]))
  ELSE lca

lowestCommonAncestor2(tree, root, node1, node2) ==
  LET pathToNode1 == findPath(tree, root, node1)
      pathToNode2 == findPath(tree, root, node2)
  IN IF pathToNode1 = NullValue \/ pathToNode2 = NullValue THEN NullValue
     ELSE LastCommonByReference(pathToNode1[1], pathToNode2[1], 0, NullValue)

\* ------------------------------------------------- serialize, deserialize
NullString == <<"n", "u", "l", "l">>
InfinityString == <<"I", "n", "f", "i", "n", "i", "t", "y">>

\* String(v) of a number.
StringOfNumber(v) == IF v = Infinity THEN InfinityString ELSE NumberString(v)

\* A number as JSON.stringify writes it: a non-finite number as null.
JSONOfNumber(v) == IF v = Infinity THEN NullString ELSE NumberString(v)

\* pieces.join(","), the pieces being strings already.
RECURSIVE JoinWithCommas(_)
JoinWithCommas(pieces) ==
  IF Len(pieces) = 0 THEN <<>>
  ELSE IF Len(pieces) = 1 THEN pieces[1]
  ELSE pieces[1] \o <<",">> \o JoinWithCommas(Tail(pieces))

\* JSON.stringify(values) of an array of numbers and nulls.
JSONStringify(values) ==
  <<"[">>
  \o JoinWithCommas([i \in 1..Len(values) |->
                       IF values[i] = NullValue THEN NullString
                       ELSE JSONOfNumber(values[i][1])])
  \o <<"]">>

\* values.join(","): null becomes the empty string.
ArrayJoin(values) ==
  JoinWithCommas([i \in 1..Len(values) |->
                    IF values[i] = NullValue THEN <<>>
                    ELSE StringOfNumber(values[i][1])])

\* str.split(","): the pieces between the commas, one piece at least.
RECURSIVE SplitAtCommas(_)
SplitAtCommas(str) ==
  LET commas == {i \in 1..Len(str) : str[i] = ","}
  IN IF commas = {} THEN <<str>>
     ELSE LET c == CHOOSE i \in commas : \A j \in commas : i <= j
          IN <<SubSeq(str, 1, c - 1)>> \o SplitAtCommas(SubSeq(str, c + 1, Len(str)))

DigitValue(ch) == CHOOSE d \in 0..9 : Digit(d) = ch

RECURSIVE DigitsValue(_)
DigitsValue(digits) ==
  IF Len(digits) = 0 THEN 0
  ELSE 10 * DigitsValue(SubSeq(digits, 1, Len(digits) - 1))
       + DigitValue(digits[Len(digits)])

\* Number(valueStr) of the decimal text of an integer or of 'Infinity'.
NumberOf(valueStr) ==
  IF valueStr = InfinityString THEN Infinity
  ELSE IF valueStr[1] = "-" THEN 0 - DigitsValue(Tail(valueStr))
  ELSE DigitsValue(valueStr)

\* JSON.parse(str) of the text of an array of integers and nulls.
JSONParse(str) ==
  LET inner == SubSeq(str, 2, Len(str) - 1)
      pieces == IF Len(inner) = 0 THEN <<>> ELSE SplitAtCommas(inner)
  IN [i \in 1..Len(pieces) |->
        IF pieces[i] = NullString THEN NullValue ELSE Def(NumberOf(pieces[i]))]

\* The level-order loop both serialize methods run: the values collected
\* from the queue, null for an absent child.
RECURSIVE CollectValues(_, _, _, _)
CollectValues(impl, tree, queue, values) ==
  IF Len(queue) = 0 THEN values
  ELSE LET n == Head(queue)
       IN IF n # Null
          THEN CollectValues(impl, tree,
                             Tail(queue) \o <<tree[n].left, tree[n].right>>,
                             Append(values, Def(NodeValue(impl, tree[n]))))
          ELSE CollectValues(impl, tree, Tail(queue), Append(values, NullValue))

\* A slip: every null is dropped, not only the trailing ones.
WithoutNulls(values) == SelectSeq(values, LAMBDA v : v # NullValue)

\* The values without their trailing nulls.
RECURSIVE WithoutTrailingNulls(_)
WithoutTrailingNulls(values) ==
  IF Len(values) > 0 /\ values[Len(values)] = NullValue
  THEN WithoutTrailingNulls(SubSeq(values, 1, Len(values) - 1))
  ELSE values

\* BinaryTree.serialize of the first class.
serialize1(tree, root) ==
  IF root = Null THEN <<"[", "]">>
  ELSE JSONStringify(WithoutTrailingNulls(CollectValues(1, tree, <<root>>, <<>>)))

\* BinaryTree.serialize of the second class.
serialize2(tree, root) ==
  IF root = Null THEN <<"[", "]">>
  ELSE <<"[">>
       \o ArrayJoin(WithoutTrailingNulls(CollectValues(2, tree, <<root>>, <<>>)))
       \o <<"]">>

\* The tree a deserialize builds: its nodes in the order of their creation
\* (a node's reference is its place in that order), and its root.
EmptyBinaryTree == [root |-> Null, nodes |-> <<>>]

\* _addChildNodes(current, values, i, queue), with the loop around it.
RECURSIVE DeserializeLoop1(_, _, _, _)
DeserializeLoop1(values, i, queue, nodes) ==
  IF ~(Len(queue) > 0 /\ i < Len(values)) THEN nodes
  ELSE LET current == Head(queue)
           hasLeft == i < Len(values) /\ values[i + 1] # NullValue
           afterLeft ==
             IF hasLeft
             THEN Append([nodes EXCEPT ![current].left = Len(nodes) + 1],
                         NewNode(1, values[i + 1][1]))
             ELSE nodes
           queueLeft == IF hasLeft THEN Append(Tail(queue), Len(afterLeft))
                        ELSE Tail(queue)
           hasRight == i + 1 < Len(values) /\ values[i + 2] # NullValue
           afterRight ==
             IF hasRight
             THEN Append([afterLeft EXCEPT ![current].right = Len(afterLeft) + 1],
                         NewNode(1, values[i + 2][1]))
             ELSE afterLeft
           queueRight == IF hasRight THEN Append(queueLeft, Len(afterRight))
                         ELSE queueLeft
       IN DeserializeLoop1(values, i + 2, queueRight, afterRight)

\* BinaryTree.deserialize of the first class.
deserialize1(str) ==
  IF str = <<"[", "]">> THEN EmptyBinaryTree
  ELSE LET values == JSONParse(str)
       IN IF Len(values) = 0 THEN EmptyBinaryTree
          ELSE [root |-> 1,
                nodes |-> DeserializeLoop1(values, 1, <<1>>,
                                           <<ValNode(values[1], Null, Null)>>)]

\* The loop of the second deserialize.
RECURSIVE DeserializeLoop2(_, _, _, _)
DeserializeLoop2(values, i, queue, nodes) ==
  IF ~(i < Len(values) /\ Len(queue) > 0) THEN nodes
  ELSE LET parentNode == Head(queue)
           readsLeft == i < Len(values)
           hasLeft == readsLeft /\ values[i + 1] # NullValue
           iLeft == IF readsLeft THEN i + 1 ELSE i
           afterLeft ==
             IF hasLeft
             THEN Append([nodes EXCEPT ![parentNode].left = Len(nodes) + 1],
                         NewNode(2, values[i + 1][1]))
             ELSE nodes
           queueLeft == IF hasLeft THEN Append(Tail(queue), Len(afterLeft))
                        ELSE Tail(queue)
           readsRight == iLeft < Len(values)
           hasRight == readsRight /\ values[iLeft + 1] # NullValue
           iRight == IF readsRight THEN iLeft + 1 ELSE iLeft
           afterRight ==
             IF hasRight
             THEN Append([afterLeft EXCEPT ![parentNode].right = Len(afterLeft) + 1],
                         NewNode(2, values[iLeft + 1][1]))
             ELSE afterLeft
           queueRight == IF hasRight THEN Append(queueLeft, Len(afterRight))
                         ELSE queueLeft
       IN DeserializeLoop2(values, iRight, queueRight, afterRight)

\* BinaryTree.deserialize of the second class.
deserialize2(serialized) ==
  IF serialized = <<"[", "]">> THEN EmptyBinaryTree
  ELSE LET stringValues == SplitAtCommas(SubSeq(serialized, 2, Len(serialized) - 1))
           values == [i \in 1..Len(stringValues) |->
                        IF stringValues[i] = NullString \/ stringValues[i] = <<>>
                        THEN NullValue
                        ELSE Def(NumberOf(stringValues[i]))]
       IN IF Len(values) = 0 \/ values[1] = NullValue THEN EmptyBinaryTree
          ELSE [root |-> 1,
                nodes |-> DeserializeLoop2(values, 1, <<1>>,
                                           <<NewNode(2, values[1][1])>>)]

\* ----------------------------------------------------------------- minDepth
\* A slip: the depth of the last node of the queue, not of the first leaf.
RECURSIVE MinDepthLoopToLast(_, _, _)
MinDepthLoopToLast(impl, tree, queue) ==
  IF Len(queue) = 0 THEN IF impl = 1 THEN Undefined ELSE Def(0)
  ELSE LET n == Head(queue).node
           depth == Head(queue).depth
           more == [i \in 1..Len(addChildren(tree, n, <<>>)) |->
                      [node |-> addChildren(tree, n, <<>>)[i], depth |-> depth + 1]]
       IN IF Len(Tail(queue) \o more) = 0 THEN Def(depth)
          ELSE MinDepthLoopToLast(impl, tree, Tail(queue) \o more)

\* The loop of minDepth (the same in both classes but for what follows the
\* loop): the depth of the first leaf taken from the queue.
RECURSIVE MinDepthLoop(_, _, _)
MinDepthLoop(impl, tree, queue) ==
  IF Len(queue) = 0 THEN IF impl = 1 THEN Undefined ELSE Def(0)
  ELSE LET n == Head(queue).node
           depth == Head(queue).depth
           more == [i \in 1..Len(addChildren(tree, n, <<>>)) |->
                      [node |-> addChildren(tree, n, <<>>)[i], depth |-> depth + 1]]
       IN IF tree[n].left = Null /\ tree[n].right = Null THEN Def(depth)
          ELSE MinDepthLoop(impl, tree, Tail(queue) \o more)

minDepth(impl, tree, root) ==
  IF root = Null THEN Def(0)
  ELSE MinDepthLoop(impl, tree, <<[node |-> root, depth |-> 1]>>)

\* --------------------------------------------------------------- areCousins
\* The breadth-first order both classes visit the nodes in, each with its
\* parent and its depth, the root's depth being `first`.
RECURSIVE BreadthFirst(_, _)
BreadthFirst(tree, queue) ==
  IF Len(queue) = 0 THEN <<>>
  ELSE LET item == Head(queue)
           kids == addChildren(tree, item.node, <<>>)
           more == [i \in 1..Len(kids) |->
                      [node |-> kids[i], parent |-> item.node,
                       depth |-> item.depth + 1]]
       IN <<item>> \o BreadthFirst(tree, Tail(queue) \o more)

\* _findNodeInfo(targetNode) of the first class.
findNodeInfo(tree, root, targetNode) ==
  IF root = Null \/ targetNode = Null THEN NullValue
  ELSE LET visited == BreadthFirst(tree, <<[node |-> root, parent |-> Null,
                                            depth |-> 0]>>)
           hits == {i \in 1..Len(visited) : visited[i].node = targetNode}
       IN IF hits = {} THEN NullValue
          ELSE Def([parent |-> visited[CHOOSE i \in hits : TRUE].parent,
                    depth |-> visited[CHOOSE i \in hits : TRUE].depth])

\* A slip: the parents are not compared.
areCousinsByDepthAlone(tree, root, node1, node2) ==
  LET node1Info == findNodeInfo(tree, root, node1)
      node2Info == findNodeInfo(tree, root, node2)
  IN /\ node1Info # NullValue
     /\ node2Info # NullValue
     /\ node1Info[1].depth = node2Info[1].depth

\* areCousins(node1, node2) of the first class.
areCousins1(tree, root, node1, node2) ==
  LET node1Info == findNodeInfo(tree, root, node1)
      node2Info == findNodeInfo(tree, root, node2)
  IN /\ node1Info # NullValue
     /\ node2Info # NullValue
     /\ node1Info[1].depth = node2Info[1].depth
     /\ node1Info[1].parent # node2Info[1].parent

\* The callback of the second areCousins over the nodes #traverse visits:
\* what it leaves in info.
RECURSIVE GatherInfo(_, _, _, _, _)
GatherInfo(visited, i, node1, node2, info) ==
  IF i > Len(visited) THEN info
  ELSE GatherInfo(visited, i + 1, node1, node2,
                  IF visited[i].node = node1
                  THEN [info EXCEPT !.depth1 = Def(visited[i].depth),
                                    !.parent1 = visited[i].parent]
                  ELSE IF visited[i].node = node2
                  THEN [info EXCEPT !.depth2 = Def(visited[i].depth),
                                    !.parent2 = visited[i].parent]
                  ELSE info)

\* areCousins(node1, node2) of the second class.
areCousins2(tree, root, node1, node2) ==
  IF root = Null THEN FALSE
  ELSE IF node1 = root \/ node2 = root THEN FALSE
  ELSE IF node1 = node2 THEN FALSE
  ELSE LET visited == BreadthFirst(tree, <<[node |-> root, parent |-> Null,
                                            depth |-> 1]>>)
           info == GatherInfo(visited, 1, node1, node2,
                              [depth1 |-> NullValue, parent1 |-> Null,
                               depth2 |-> NullValue, parent2 |-> Null])
       IN /\ info.depth1 # NullValue
          /\ info.depth2 # NullValue
          /\ info.depth1 = info.depth2
          /\ info.parent1 # info.parent2

\* ------------------------------------------------------------------- state
VARIABLES
  heap,                 \* the nodes of the caller's tree, by reference
  rootNode,             \* the tree's root, Null for an empty tree
  pc,                   \* where the current call stands
  viaLog,               \* the call was made by Tree.log
  version,              \* the renderer called
  logContext,           \* argument: the label
  highlightedNodes,     \* argument: the highlight set
  actualFullTreeDepth,  \* local: the depth found
  nodePositions,        \* local: the position map, in insertion order
  maxEncounteredY,      \* local: the largest row assigned
  canvasWidth,
  canvasHeight,
  canvas,               \* local: the character grid
  nodeTextCells,        \* local: the cells reserved for node text
  pendingEdges,         \* local: the connection lines still to draw
  filteredTreeLines,    \* local: the body rows
  result,               \* the returned string
  console,              \* the line console.log is printing
  earlier,              \* an earlier call and what it returned, if one is kept
  rowCounts,            \* the table RowCounts, computed once
  bt                    \* the BinaryTree method running on the tree, its locals

\* No method of the tree's BinaryTree object (of class impl) is running.
\* `computed` is history: the nodes whose path sum maxSum has computed, in
\* the order of the computations.
NoMethod(impl) ==
  [impl |-> impl, op |-> "none", pc |-> "idle", node1 |-> Null, node2 |-> Null,
   lowerBound |-> 0, stack |-> <<>>, sums |-> <<>>, maxSum |-> NegInfinity,
   ret |-> Undefined, text |-> <<>>, made |-> EmptyBinaryTree,
   computed |-> <<>>]

inputs == <<heap, rootNode>>
arguments == <<viaLog, version, logContext, highlightedNodes>>
layout == <<actualFullTreeDepth, nodePositions, maxEncounteredY>>
grid == <<canvasWidth, canvasHeight, canvas, nodeTextCells, pendingEdges>>
outputs == <<filteredTreeLines, result, console>>
vars == <<inputs, pc, arguments, layout, grid, outputs, earlier, rowCounts, bt>>

\* A slip: the depth found is kept from one call to the next.
NoLocalsButDepth ==
  /\ actualFullTreeDepth' = actualFullTreeDepth
  /\ nodePositions' = <<>>
  /\ maxEncounteredY' = 0
  /\ canvasWidth' = 0
  /\ canvasHeight' = 0
  /\ canvas' = <<>>
  /\ nodeTextCells' = {}
  /\ pendingEdges' = <<>>
  /\ filteredTreeLines' = <<>>

\* The declarations at the top of a call: every local starts afresh.
NoLocals ==
  /\ actualFullTreeDepth' = 0
  /\ nodePositions' = <<>>
  /\ maxEncounteredY' = 0
  /\ canvasWidth' = 0
  /\ canvasHeight' = 0
  /\ canvas' = <<>>
  /\ nodeTextCells' = {}
  /\ pendingEdges' = <<>>
  /\ filteredTreeLines' = <<>>

Init ==
  /\ rowCounts = RowCounts
  /\ heap \in InputHeaps
  /\ rootNode = IF DOMAIN heap = {} THEN Null ELSE 1
  /\ pc = "idle"
  /\ viaLog = FALSE
  /\ version = 1
  /\ logContext = <<>>
  /\ highlightedNodes = {}
  /\ actualFullTreeDepth = 0
  /\ nodePositions = <<>>
  /\ maxEncounteredY = 0
  /\ canvasWidth = 0
  /\ canvasHeight = 0
  /\ canvas = <<>>
  /\ nodeTextCells = {}
  /\ pendingEdges = <<>>
  /\ filteredTreeLines = <<>>
  /\ result = <<>>
  /\ console = <<>>
  /\ earlier = <<>>
  /\ bt = NoMethod(1)

\* getVisualTreeString(rootNode, logContext, highlightedNodes) is entered; an
\* absent root returns at once.
Enter(v, context, highlights, logging) ==
  /\ version' = v
  /\ logContext' = context
  /\ highlightedNodes' = highlights
  /\ viaLog' = logging
  /\ NoLocals
  /\ IF rootNode = Null
     THEN result' = EmptyTreeResult(context) /\ pc' = "done"
     ELSE result' = <<>> /\ pc' = "layout"
  /\ UNCHANGED <<inputs, console, earlier, rowCounts, bt>>

Call(v, context, highlights) ==
  /\ pc = "idle"
  /\ Enter(v, context, highlights, FALSE)

\* Tree.log(context, highlights): prints the literal frame of an empty tree
\* itself, and the renderer's string otherwise.
Log(v, context, highlights) ==
  /\ pc = "idle"
  /\ IF rootNode = Null
     THEN /\ console' = LogEmptyFrame(context)
          /\ pc' = "printed"
          /\ viaLog' = TRUE
          /\ logContext' = context
          /\ highlightedNodes' = highlights
          /\ UNCHANGED <<inputs, version, layout, grid, filteredTreeLines, result,
                         earlier, rowCounts, bt>>
     ELSE Enter(v, context, highlights, TRUE)

\* A slip: the binary pair is pushed onto the node's own children array.
LayoutPushingIntoChildren ==
  /\ pc = "layout"
  /\ LET depth == Max(actualFullTreeDepth, FullTreeDepth(version, heap, rootNode))
         positions == NodePositions(version, heap, highlightedNodes, rootNode, depth)
     IN /\ actualFullTreeDepth' = depth
        /\ nodePositions' = MapSetAll(nodePositions, positions)
        /\ maxEncounteredY' = MaxY(positions)
  /\ heap' = [n \in DOMAIN heap |->
                [heap[n] EXCEPT !.children = @ \o BinaryChildren(heap, n)]]
  /\ pc' = "size"
  /\ UNCHANGED <<rootNode, arguments, grid, outputs, earlier, rowCounts, bt>>

\* Depth discovery and coordinate assignment.
Layout ==
  /\ pc = "layout"
  /\ LET depth == Max(actualFullTreeDepth, FullTreeDepth(version, heap, rootNode))
         positions == NodePositions(version, heap, highlightedNodes, rootNode, depth)
     IN /\ actualFullTreeDepth' = depth
        /\ nodePositions' = MapSetAll(nodePositions, positions)
        /\ maxEncounteredY' = MaxY(positions)
  /\ pc' = "size"
  /\ UNCHANGED <<inputs, arguments, grid, outputs, earlier, rowCounts, bt>>

\* The shift, the canvas and the reserved text cells.
Size ==
  /\ pc = "size"
  /\ IF Len(nodePositions) = 0
     THEN /\ result' = JoinLines(<<Header(logContext), NoPositionsString, Footer>>)
          /\ pc' = "done"
          /\ UNCHANGED <<nodePositions, grid>>
     ELSE LET shifted == ShiftPositions(nodePositions)
              w == CanvasWidth(nodePositions)
              h == CanvasHeight(maxEncounteredY)
          IN /\ nodePositions' = shifted
             /\ canvasWidth' = w
             /\ canvasHeight' = h
             /\ canvas' = BlankCanvas(w, h)
             /\ nodeTextCells' = NodeTextCells(shifted, w, h)
             /\ pendingEdges' = EdgesToDraw(version, heap, shifted, 1)
             /\ result' = result
             /\ pc' = "lines"
  /\ UNCHANGED <<inputs, arguments, actualFullTreeDepth, maxEncounteredY,
                 filteredTreeLines, console, earlier, rowCounts, bt>>

\* One connection line is drawn.
DrawEdge ==
  /\ pc = "lines"
  /\ pendingEdges # <<>>
  /\ canvas' = DrawConnection(version, Head(pendingEdges), nodePositions, canvas,
                              nodeTextCells, canvasWidth, canvasHeight)
  /\ pendingEdges' = Tail(pendingEdges)
  /\ UNCHANGED <<inputs, pc, arguments, layout, canvasWidth, canvasHeight,
                 nodeTextCells, outputs, earlier, rowCounts, bt>>

\* The node texts are stamped over the lines.
DrawText ==
  /\ pc = "lines"
  /\ pendingEdges = <<>>
  /\ canvas' = StampAll(nodePositions, 1, canvas, canvasWidth, canvasHeight)
  /\ pc' = "serialize"
  /\ UNCHANGED <<inputs, arguments, layout, canvasWidth, canvasHeight,
                 nodeTextCells, pendingEdges, outputs, earlier, rowCounts, bt>>

Serialize ==
  /\ pc = "serialize"
  /\ LET filtered ==
           FilteredTreeLines(version, TreeLines(canvas, canvasWidth, canvasHeight))
     IN /\ filteredTreeLines' = filtered
        /\ result' = Serialized(version, logContext, filtered, nodePositions, canvas,
                                canvasWidth, canvasHeight,
                                getDisplayValue(version, heap, highlightedNodes,
                                                rootNode))
  /\ pc' = "done"
  /\ UNCHANGED <<inputs, arguments, layout, grid, console, earlier, rowCounts, bt>>

\* The call returns; Tree.log prints what it got.
Return ==
  /\ pc = "done"
  /\ IF viaLog
     THEN console' = result /\ pc' = "printed"
     ELSE console' = console /\ pc' = "idle"
  /\ UNCHANGED <<inputs, arguments, layout, grid, filteredTreeLines, result, earlier, rowCounts, bt>>

\* Tree.log returns; the printed line is gone from the model.
LogReturn ==
  /\ pc = "printed"
  /\ console' = <<>>
  /\ pc' = "idle"
  /\ UNCHANGED <<inputs, arguments, layout, grid, filteredTreeLines, result, earlier, rowCounts, bt>>

\* A reference to a node that is no node of any input tree.
ForeignNode == Pow2(MaxNodes)

\* The highlight sets a caller passes: nodes of the tree and a foreign node.
HighlightSets == SUBSET (DOMAIN heap \cup {ForeignNode})

Next ==
  \/ \E v \in Versions, context \in Labels, highlights \in HighlightSets :
       Call(v, context, highlights)
  \/ \E v \in Versions, context \in Labels, highlights \in HighlightSets :
       Log(v, context, highlights)
  \/ Layout
  \/ Size
  \/ DrawEdge
  \/ DrawText
  \/ Serialize
  \/ Return
  \/ LogReturn

Spec == Init /\ [][Next]_vars

\* ------------------------------------------------ two calls, one compared
\* The caller hands another node of its tree to the next call.
Reroot(r) ==
  /\ pc = "idle"
  /\ r \in DOMAIN heap
  /\ r # rootNode
  /\ rootNode' = r
  /\ UNCHANGED <<heap, pc, arguments, layout, grid, outputs, earlier, rowCounts, bt>>

\* The caller keeps what a call returned, with the call's arguments.
Remember ==
  /\ pc = "done"
  /\ earlier = <<>>
  /\ earlier' = <<[rootNode |-> rootNode, version |-> version,
                   logContext |-> logContext,
                   highlightedNodes |-> highlightedNodes, result |-> result]>>
  /\ UNCHANGED <<inputs, pc, arguments, layout, grid, outputs, rowCounts, bt>>

TwiceHeaps ==
  { BinaryHeap("value", S, "index") : S \in BinaryShapes(MaxNodes) }
  \cup
  { OrderedHeap(p, "index") : p \in {q \in OrderedShapes(MaxNodes) : IsPreorder(q)} }

InitTwice == Init /\ heap \in TwiceHeaps

NextTwice ==
  \/ \E v \in Versions, highlights \in {{}, DOMAIN heap} :
       Call(v, <<"x">>, highlights)
  \/ \E r \in DOMAIN heap : Reroot(r)
  \/ Remember
  \/ Layout
  \/ Size
  \/ DrawEdge
  \/ DrawText
  \/ Serialize
  \/ Return

SpecTwice == InitTwice /\ [][NextTwice]_vars

\* ------------------------------------------- the methods of a BinaryTree
\* What the renderer keeps: untouched by the methods of a BinaryTree.
renderer == <<pc, arguments, layout, grid, outputs, earlier, rowCounts>>

InitTree ==
  /\ \E impl \in Impls : bt = NoMethod(impl)
  /\ heap \in TreeHeaps(bt.impl)
  /\ rootNode = IF DOMAIN heap = {} THEN Null ELSE 1
  /\ rowCounts = {}
  /\ pc = "idle"
  /\ viaLog = FALSE
  /\ version = 1
  /\ logContext = <<>>
  /\ highlightedNodes = {}
  /\ actualFullTreeDepth = 0
  /\ nodePositions = <<>>
  /\ maxEncounteredY = 0
  /\ canvasWidth = 0
  /\ canvasHeight = 0
  /\ canvas = <<>>
  /\ nodeTextCells = {}
  /\ pendingEdges = <<>>
  /\ filteredTreeLines = <<>>
  /\ result = <<>>
  /\ console = <<>>
  /\ earlier = <<>>

\* A reference to a node that is no node of any tree of a BinaryTree.
OutsideNode == Pow2(MaxTreeNodes)

\* The nodes a caller passes: the tree's, one outside it, and none.
ArgumentNodes == DOMAIN heap \cup {OutsideNode, Null}

\* maxSum() is called: an empty tree returns 0 at once, else the stack
\* starts with the root.
MaxSumCall ==
  /\ bt.pc = "idle"
  /\ FiniteTree(bt.impl, heap)
  /\ bt' = IF rootNode = Null
           THEN [bt EXCEPT !.op = "maxSum", !.pc = "returned", !.ret = Def(0)]
           ELSE [bt EXCEPT !.op = "maxSum", !.pc = "loop",
                           !.maxSum = NegInfinity, !.sums = <<>>,
                           !.computed = <<>>,
                           !.stack = IF bt.impl = 1
                                     THEN <<createPathTracker(rootNode)>>
                                     ELSE <<[node |-> rootNode, phase |-> visitLeft]>>]
  /\ UNCHANGED <<inputs, renderer>>

\* One turn of the loop of maxSum.
MaxSumTurn ==
  /\ bt.pc = "loop"
  /\ bt.op = "maxSum"
  /\ Len(bt.stack) > 0
  /\ LET seen == IF ComputesSum(bt.impl, bt.stack)
                 THEN Append(bt.computed, bt.stack[Len(bt.stack)].node)
                 ELSE bt.computed
     IN bt' = IF bt.impl = 1
              THEN LET after == MaxSumTurn1(heap, bt.stack, bt.maxSum)
                   IN [bt EXCEPT !.stack = after.stack, !.maxSum = after.maxSum,
                                 !.computed = seen]
              ELSE LET after == MaxSumTurn2(heap, bt.stack, bt.sums, bt.maxSum)
                   IN [bt EXCEPT !.stack = after.stack, !.sums = after.sums,
                                 !.maxSum = after.maxSum, !.computed = seen]
  /\ UNCHANGED <<inputs, renderer>>

\* The stack is empty: maxSum returns its maximum.
MaxSumReturn ==
  /\ bt.pc = "loop"
  /\ bt.op = "maxSum"
  /\ Len(bt.stack) = 0
  /\ bt' = [bt EXCEPT !.pc = "returned", !.ret = bt.maxSum]
  /\ UNCHANGED <<inputs, renderer>>

\* nextLarger(lowerBound), from call to return.
NextLargerCall(lowerBound) ==
  /\ bt.pc = "idle"
  /\ FiniteTree(bt.impl, heap)
  /\ bt' = [bt EXCEPT !.op = "nextLarger", !.pc = "returned",
                      !.lowerBound = lowerBound,
                      !.ret = IF bt.impl = 1
                              THEN nextLarger1(heap, rootNode, lowerBound)
                              ELSE nextLarger2(heap, rootNode, lowerBound)]
  /\ UNCHANGED <<inputs, renderer>>

\* lowestCommonAncestor(node1, node2), from call to return.
LowestCommonAncestorCall(node1, node2) ==
  /\ bt.pc = "idle"
  /\ FiniteTree(bt.impl, heap)
  /\ bt' = [bt EXCEPT !.op = "lowestCommonAncestor", !.pc = "returned",
                      !.node1 = node1, !.node2 = node2,
                      !.ret = IF bt.impl = 1
                              THEN lowestCommonAncestor1(heap, rootNode, node1, node2)
                              ELSE lowestCommonAncestor2(heap, rootNode, node1, node2)]
  /\ UNCHANGED <<inputs, renderer>>

\* BinaryTree.serialize(tree), from call to return.
SerializeCall ==
  /\ bt.pc = "idle"
  /\ bt' = [bt EXCEPT !.op = "serialize", !.pc = "returned",
                      !.text = IF bt.impl = 1 THEN serialize1(heap, rootNode)
                               ELSE serialize2(heap, rootNode)]
  /\ UNCHANGED <<inputs, renderer>>

\* BinaryTree.deserialize(str) on the string serialize returned.
DeserializeCall ==
  /\ bt.pc = "returned"
  /\ bt.op = "serialize"
  /\ bt' = [bt EXCEPT !.op = "deserialize",
                      !.made = IF bt.impl = 1 THEN deserialize1(bt.text)
                               ELSE deserialize2(bt.text)]
  /\ UNCHANGED <<inputs, renderer>>

\* minDepth(), from call to return.
MinDepthCall ==
  /\ bt.pc = "idle"
  /\ bt' = [bt EXCEPT !.op = "minDepth", !.pc = "returned",
                      !.ret = minDepth(bt.impl, heap, rootNode)]
  /\ UNCHANGED <<inputs, renderer>>

\* areCousins(node1, node2), from call to return.
AreCousinsCall(node1, node2) ==
  /\ bt.pc = "idle"
  /\ bt' = [bt EXCEPT !.op = "areCousins", !.pc = "returned",
                      !.node1 = node1, !.node2 = node2,
                      !.ret = IF bt.impl = 1
                              THEN Def(areCousins1(heap, rootNode, node1, node2))
                              ELSE Def(areCousins2(heap, rootNode, node1, node2))]
  /\ UNCHANGED <<inputs, renderer>>

\* The caller has what the method returned.
MethodDone ==
  /\ bt.pc = "returned"
  /\ bt' = NoMethod(bt.impl)
  /\ UNCHANGED <<inputs, renderer>>

NextTree ==
  \/ MaxSumCall
  \/ MaxSumTurn
  \/ MaxSumReturn
  \/ \E lowerBound \in LowerBounds : NextLargerCall(lowerBound)
  \/ \E node1 \in ArgumentNodes, node2 \in ArgumentNodes :
       LowestCommonAncestorCall(node1, node2)
  \/ SerializeCall
  \/ DeserializeCall
  \/ MinDepthCall
  \/ \E node1 \in ArgumentNodes, node2 \in ArgumentNodes : AreCousinsCall(node1, node2)
  \/ MethodDone

SpecTree == InitTree /\ [][NextTree]_vars

\* The loop of maxSum is sequential code: a turn that can run does run, and
\* so does the return.
SpecTreeFair == SpecTree /\ WF_vars(MaxSumTurn) /\ WF_vars(MaxSumReturn)

\* ================================================================== claims
\* The pieces of a string between its line breaks.
RECURSIVE SplitLines(_)
SplitLines(s) ==
  LET breaks == {i \in 1..Len(s) : s[i] = "\n"}
  IN IF breaks = {} THEN <<s>>
     ELSE LET b == CHOOSE i \in breaks : \A j \in breaks : i <= j
          IN <<SubSeq(s, 1, b - 1)>> \o SplitLines(SubSeq(s, b + 1, Len(s)))

\* The rows between the header line and the footer line of a returned string.
BodyRows(s) == LET lines == SplitLines(s) IN SubSeq(lines, 3, Len(lines) - 1)

RECURSIVE TrimStart(_)
TrimStart(s) ==
  IF Len(s) = 0 THEN s ELSE IF s[1] = " " THEN TrimStart(Tail(s)) ELSE s

RECURSIVE TrimTail(_)
TrimTail(s) ==
  IF Len(s) = 0 THEN s
  ELSE IF s[Len(s)] = " " THEN TrimTail(SubSeq(s, 1, Len(s) - 1)) ELSE s

Trimmed(s) == TrimTail(TrimStart(s))

HeaderLine(context) == <<"-", "-", "-", " ">> \o context \o <<" ", "-", "-", "-">>

IsFooterLine(line) == Len(line) = 42 /\ \A i \in 1..Len(line) : line[i] = "-"

EmptyTreeLine == <<"<", "e", "m", "p", "t", "y", " ", "t", "r", "e", "e", ">">>

\* The nodes of the tree under the root.
TreeNodes == IF rootNode = Null THEN {} ELSE DOMAIN heap

\* C1: every returned string is non-empty, starts with a line break followed
\* by the line '--- <label> ---', and ends with the line of 42 dashes.
C1_HeaderAndFooter ==
  pc = "done" =>
    /\ Len(result) > 0
    /\ result[1] = "\n"
    /\ LET lines == SplitLines(result)
       IN /\ Len(lines) >= 3
          /\ lines[1] = <<>>
          /\ lines[2] = HeaderLine(logContext)
          /\ IsFooterLine(lines[Len(lines)])

C1_Witness ==
  /\ pc = "done"
  /\ rootNode # Null
  /\ Cardinality(TreeNodes) = 3
  /\ Len(BodyRows(result)) >= 4

\* C2: for an absent root the body between header and footer is the single
\* line '<empty tree>', whatever the label and the highlight set; Tree.log
\* prints the same frame.
C2_EmptyTreeBody ==
  /\ (pc = "done" /\ rootNode = Null) =>
       LET lines == SplitLines(result)
       IN /\ Len(lines) = 4
          /\ SubSeq(lines, 1, 3) = << <<>>, HeaderLine(logContext), EmptyTreeLine >>
          /\ IsFooterLine(lines[4])
  /\ (pc = "printed" /\ rootNode = Null) =>
       LET lines == SplitLines(console)
       IN /\ Len(lines) = 4
          /\ SubSeq(lines, 1, 3) = << <<>>, HeaderLine(logContext), EmptyTreeLine >>
          /\ IsFooterLine(lines[4])

C2_Witness ==
  /\ pc = "done"
  /\ rootNode = Null
  /\ highlightedNodes # {}
  /\ BodyRows(result) = <<EmptyTreeLine>>

\* C3: a single-node tree renders as exactly one body row which, trimmed,
\* is the node's display text ('5' for the value 5).
C3_SingleNodeRow ==
  (pc = "done" /\ Cardinality(TreeNodes) = 1) =>
    LET rows == BodyRows(result)
    IN /\ Len(rows) = 1
       /\ Len(SplitLines(result)) = 4
       /\ Trimmed(rows[1]) = getDisplayValue(version, heap, highlightedNodes, rootNode)
       /\ (/\ rootNode \notin highlightedNodes
           /\ \/ heap[rootNode].value = <<5>>
              \/ version = 1 /\ heap[rootNode].value = <<>> /\ heap[rootNode].val = <<5>>)
          => Trimmed(rows[1]) = <<"5">>

C3_Witness ==
  /\ pc = "done"
  /\ Cardinality(TreeNodes) = 1
  /\ heap[rootNode].value = <<5>>
  /\ highlightedNodes = {}
  /\ BodyRows(result) = << <<" ", "5">> >>

\* The value text of a node: its display text without a highlight marker.
ValueText(n) == getDisplayValue(version, heap, {}, n)

\* The nodes the renderer has placed.
PlacedNodes == {nodePositions[i].node : i \in 1..Len(nodePositions)}

Placed(n) == PositionOf(nodePositions, n)[1]

\* The characters of a body row from the 0-based column `from`, `count` of
\* them (fewer when the row ends before).
RowSlice(rows, y, from, count) ==
  IF y + 1 > Len(rows) THEN <<>>
  ELSE SubSeq(rows[y + 1], from + 1, Min(from + count, Len(rows[y + 1])))

\* The body shows node n as its value text immediately followed by ' (*)'.
ShownMarked(n) ==
  LET pos == Placed(n)
      marked == ValueText(n) \o <<" ", "(", "*", ")">>
  IN RowSlice(BodyRows(result), pos.y, TextStartX(pos), Len(marked)) = marked

\* C4: every highlighted node of the tree is shown as its value text
\* immediately followed by ' (*)', and no other node is shown with the marker.
C4_MarkerIffHighlighted ==
  (pc = "done" /\ rootNode # Null) =>
    \A n \in PlacedNodes : ShownMarked(n) <=> n \in highlightedNodes

\* C6: a node with a left and a right child has its left child at a smaller
\* x and its right child at a larger x than its own.
C6_LeftRightPlacement ==
  (pc \in {"size", "lines", "serialize", "done"} /\ rootNode # Null) =>
    \A n \in PlacedNodes :
      (heap[n].left # Null /\ heap[n].right # Null) =>
        /\ heap[n].left \in PlacedNodes
        /\ heap[n].right \in PlacedNodes
        /\ Placed(heap[n].left).x < Placed(n).x
        /\ Placed(n).x < Placed(heap[n].right).x

C6_Witness ==
  /\ pc = "size"
  /\ version = 1
  /\ \E n \in PlacedNodes :
       /\ heap[n].left # Null /\ heap[n].right # Null
       /\ Placed(heap[n].left).x = 0 - 2
       /\ Placed(heap[n].right).x = 2

\* The 1-based columns of a row that hold a character.
Columns(row, ch) == {i \in 1..Len(row) : row[i] = ch}

\* The tree with root 1, left child 2 and right child 3 is rendered, its
\* values on display and none of its nodes highlighted.
RenderedOneTwoThree ==
  /\ pc = "done"
  /\ heap \in {BinaryHeap(kind, {1, 2, 3}, "index") : kind \in {"val", "value"}}
  /\ version = 1 \/ heap[1].value # Undefined
  /\ highlightedNodes \cap TreeNodes = {}

\* C8 as stated: the body of the tree 1, 2, 3 has exactly 3 rows: '1', then
\* a row with '/' left and '\' right of the root's column, then '2' left of '3'.
C8_ThreeRows ==
  RenderedOneTwoThree =>
    LET rows == BodyRows(result)
    IN /\ Len(rows) = 3
       /\ \E c \in Columns(rows[1], "1") :
            /\ \E i \in Columns(rows[2], "/") : i < c
            /\ \E j \in Columns(rows[2], "\\") : j > c
       /\ \E i \in Columns(rows[3], "2") : \E j \in Columns(rows[3], "3") : i < j

\* C8, amended: the body has exactly 4 rows: '1', then two rows each with a
\* '/' left and a '\' right of the root's column, then '2' left of '3'.
C8_FourRows ==
  RenderedOneTwoThree =>
    LET rows == BodyRows(result)
    IN /\ Len(rows) = 4
       /\ \E c \in Columns(rows[1], "1") :
            \A m \in {2, 3} :
              /\ \E i \in Columns(rows[m], "/") : i < c
              /\ \E j \in Columns(rows[m], "\\") : j > c
       /\ \E i \in Columns(rows[4], "2") : \E j \in Columns(rows[4], "3") : i < j

C8_Witness ==
  /\ RenderedOneTwoThree
  /\ BodyRows(result) = << <<" ", " ", " ", "1">>,
                           <<" ", " ", "/", " ", "\\">>,
                           <<" ", "/", " ", " ", " ", "\\">>,
                           <<" ", "2", " ", " ", " ", "3">> >>

\* The tree in which root 1 has only the left child 2, and 2 only the left
\* child 4, is rendered.
RenderedLeftChain ==
  /\ pc = "done"
  /\ heap \in {BinaryHeap(kind, {1, 2, 4}, "index") : kind \in {"val", "value"}}
  /\ highlightedNodes \cap TreeNodes = {}

\* No body row reaches beyond the last column of the root's text.
RightOfRootBlank ==
  LET pos == Placed(rootNode)
  IN \A y \in 1..Len(BodyRows(result)) :
       Len(BodyRows(result)[y]) <= TextStartX(pos) + pos.width

\* The body rows that hold no node text: the rows of the connecting lines.
LineRows ==
  {y \in 1..Len(BodyRows(result)) : \A n \in PlacedNodes : Placed(n).y # y - 1}

\* Every row of connecting lines holds the glyph and, besides it, blanks.
LinesDrawnWith(glyph) ==
  /\ LineRows # {}
  /\ \A y \in LineRows :
       LET row == BodyRows(result)[y]
       IN /\ Columns(row, glyph) # {}
          /\ \A i \in 1..Len(row) : row[i] \in {" ", glyph}

\* C9 as stated: the left chain 1, 2, 4 leaves the columns right of the
\* root's text blank and draws every connecting line with '/'.
C9_AllLinesSlopeLeft ==
  RenderedLeftChain => (RightOfRootBlank /\ LinesDrawnWith("/"))

\* C9, amended: the columns right of the root's text stay blank; the
\* binary-only version draws every connecting line with '/', the polymorphic
\* version puts each child below its parent and draws every line with '|',
\* in the root's column.
C9_LeftChainLines ==
  RenderedLeftChain =>
    /\ RightOfRootBlank
    /\ version = 2 => LinesDrawnWith("/")
    /\ version = 1 =>
         /\ LinesDrawnWith("|")
         /\ \A n \in PlacedNodes : Placed(n).x = Placed(rootNode).x
         /\ \A y \in LineRows :
              Columns(BodyRows(result)[y], "|") = {Placed(rootNode).x + 1}

C9_Witness ==
  /\ RenderedLeftChain
  /\ version = 1
  /\ heap[1].val = <<1>>
  /\ highlightedNodes = {}
  /\ Len(BodyRows(result)) = 9
  /\ BodyRows(result)[2] = <<" ", "|">>

\* C5: a call with the root, the version, the label and the highlight set
\* of an earlier call returns the string the earlier call returned, whatever
\* calls were made in between.
C5_SameInputsSameString ==
  (/\ pc = "done"
   /\ earlier # <<>>
   /\ earlier[1].rootNode = rootNode
   /\ earlier[1].version = version
   /\ earlier[1].logContext = logContext
   /\ earlier[1].highlightedNodes = highlightedNodes)
  => result = earlier[1].result

\* The call repeated is drawn narrower than the tree rendered in between.
C5_Witness ==
  /\ pc = "done"
  /\ earlier # <<>>
  /\ earlier[1].rootNode = rootNode
  /\ earlier[1].version = version
  /\ earlier[1].highlightedNodes = highlightedNodes
  /\ rootNode = 2
  /\ version = 1
  /\ Len(nodePositions) = 2
  /\ result = earlier[1].result
  /\ Len(BodyRows(result)) = 4

\* C7: a tree of depth d + 1 has strictly more body rows than a tree of
\* depth d.
C7_RowsGrowWithDepth ==
  (/\ pc = "done"
   /\ rootNode # Null
   /\ version = 2 => ~heap[rootNode].isArray)
  => \A deeper \in rowCounts :
       (deeper[1] = version /\ deeper[2] = TreeDepth(heap, rootNode) + 1)
       => deeper[3] > Len(BodyRows(result))

C7_Witness ==
  /\ pc = "done"
  /\ rootNode # Null
  /\ version = 1
  /\ TreeDepth(heap, rootNode) = 1
  /\ Len(BodyRows(result)) = 4
  /\ <<1, 2, 9>> \in rowCounts
  /\ <<1, 0, 1>> \in rowCounts

\* C10: no step of a call changes a node of the tree or the tree's root, and
\* from the call to its return the highlight set keeps its members.
C10_InputUnchanged ==
  [][/\ heap' = heap
     /\ rootNode' = rootNode
     /\ pc # "idle" => highlightedNodes' = highlightedNodes]_vars

C10_Witness ==
  /\ pc = "done"
  /\ Cardinality(TreeNodes) = 3
  /\ heap[1].isArray
  /\ heap[1].children = <<2, 3>>
  /\ highlightedNodes = {2, ForeignNode}
  /\ Len(nodePositions) = 3

\* The glyphs of the connecting lines.
LineGlyphs == {"/", "\\", "|"}

\* The character the canvas holds at a cell <<x, y>>.
CanvasAt(cell) == canvas[cell[2]][cell[1]]

\* The characters the node texts put on a cell.
TextCharsAt(cell) ==
  { nodePositions[i].text[cell[1] - TextStartX(nodePositions[i]) + 1] :
      i \in { j \in 1..Len(nodePositions) :
                /\ nodePositions[j].y = cell[2]
                /\ cell[1] - TextStartX(nodePositions[j])
                     \in 0..(Len(nodePositions[j].text) - 1) } }

\* C11: while the lines are drawn every cell reserved for node text still
\* holds its blank, and in the final canvas every such cell holds a character
\* of a node's text that lies on it, never a line glyph.
C11_TextCellsNeverDrawnOver ==
  /\ pc = "lines" => \A cell \in nodeTextCells : CanvasAt(cell) = " "
  /\ pc \in {"serialize", "done"} =>
       \A cell \in nodeTextCells :
         /\ CanvasAt(cell) \in TextCharsAt(cell)
         /\ CanvasAt(cell) \notin LineGlyphs

C11_Witness ==
  /\ pc = "lines"
  /\ pendingEdges = <<>>
  /\ Cardinality(TreeNodes) = 3
  /\ highlightedNodes \cap TreeNodes # {}
  /\ Cardinality(nodeTextCells) >= 7
  /\ \E y \in 0..(canvasHeight - 1), x \in 0..(canvasWidth - 1) :
       canvas[y][x] \in LineGlyphs

\* The nodes reached from node n through the children the renderer's version
\* looks at: the binary pair, or (polymorphic version, no binary child) the
\* children array.
RECURSIVE ReachableFrom(_, _, _)
ReachableFrom(v, g, n) ==
  LET pair == {g[n].left, g[n].right} \ {Null}
      kids == IF v = 2 \/ pair # {} THEN pair
              ELSE IF g[n].isArray
              THEN {g[n].children[i] : i \in 1..Len(g[n].children)}
              ELSE {}
  IN {n} \cup UNION {ReachableFrom(v, g, k) : k \in kids}

\* C12: after coordinate assignment the position map has exactly one entry
\* for every node reachable from the root, none for any other node, and the
\* root's entry is at x = 0, y = 0.
C12_OnePositionPerReachableNode ==
  pc = "size" =>
    /\ PlacedNodes = ReachableFrom(version, heap, rootNode)
    /\ \A i, j \in 1..Len(nodePositions) :
         nodePositions[i].node = nodePositions[j].node => i = j
    /\ Placed(rootNode).x = 0
    /\ Placed(rootNode).y = 0

C12_Witness ==
  /\ pc = "size"
  /\ version = 1
  /\ heap[1].isArray
  /\ heap[1].children = <<2, 3>>
  /\ Len(nodePositions) = 3
  /\ Placed(2).x < 0
  /\ Placed(1).x = 0

\* A node without a value: neither 'value' nor 'val' is defined.
Valueless(n) == heap[n].value = <<>> /\ heap[n].val = <<>>

\* The returned string is framed: a header line, a body, the footer line.
Framed ==
  LET lines == SplitLines(result)
  IN /\ Len(lines) >= 4
     /\ lines[2] = HeaderLine(logContext)
     /\ IsFooterLine(lines[Len(lines)])

\* C13: a node with neither a defined 'value' nor a defined 'val' has the
\* display text '[?]', followed by ' (*)' when it is highlighted, and the
\* call returns a framed string.
C13_PlaceholderForMissingValue ==
  (pc = "done" /\ rootNode # Null) =>
    /\ Framed
    /\ \A n \in PlacedNodes :
         Valueless(n) =>
           Placed(n).text = IF n \in highlightedNodes
                            THEN <<"[", "?", "]", " ", "(", "*", ")">>
                            ELSE <<"[", "?", "]">>

\* C14: a member of the highlight set that is no node of the rendered tree
\* changes nothing: the returned string is the one the call returns without
\* such members.
C14_ForeignHighlightIgnored ==
  (pc = "done" /\ rootNode # Null) =>
    result = JoinLines(<<Header(logContext)>>
                       \o RenderedBody(version, heap, rootNode,
                                       highlightedNodes \cap PlacedNodes)
                       \o <<Footer>>)

C14_Witness ==
  /\ pc = "done"
  /\ rootNode # Null
  /\ ForeignNode \in highlightedNodes
  /\ highlightedNodes \cap PlacedNodes # {}
  /\ Cardinality(PlacedNodes) = 3
  /\ \E n \in PlacedNodes : n \notin highlightedNodes

\* --------------------------------------------------- BinaryTree methods
\* The parent of a node of the tree, Null for the root.
ParentIn(n) ==
  LET parents == {p \in DOMAIN heap : n \in {heap[p].left, heap[p].right}}
  IN IF parents = {} THEN Null ELSE CHOOSE p \in parents : TRUE

\* A node and its ancestors.
RECURSIVE UpFrom(_)
UpFrom(n) == IF n = Null THEN {} ELSE {n} \cup UpFrom(ParentIn(n))

\* The deepest node of a non-empty set of nodes on one root path.
Deepest(S) ==
  CHOOSE n \in S : \A m \in S : Cardinality(UpFrom(n)) >= Cardinality(UpFrom(m))

\* The nodes of the simple path between two nodes of the tree.
PathNodes(u, w) ==
  LET common == UpFrom(u) \cap UpFrom(w)
  IN (UpFrom(u) \cup UpFrom(w)) \ (common \ {Deepest(common)})

\* The value a node holds.
ValueAt(n) == IF bt.impl = 1 THEN heap[n].val[1] ELSE heap[n].value[1]

RECURSIVE SumOver(_)
SumOver(S) ==
  IF S = {} THEN 0
  ELSE LET n == CHOOSE m \in S : TRUE IN ValueAt(n) + SumOver(S \ {n})

Largest(S) == CHOOSE x \in S : \A y \in S : x >= y
Smallest(S) == CHOOSE x \in S : \A y \in S : x <= y

\* The largest sum over the simple paths of a non-empty tree.
BestPathSum ==
  Largest({SumOver(PathNodes(u, w)) : u \in DOMAIN heap, w \in DOMAIN heap})

\* C15: maxSum returns the largest sum of the values on a simple path of the
\* tree, 0 for an empty tree, and the largest single value when every value
\* is negative.
C15_MaxSumIsBestPathSum ==
  (bt.pc = "returned" /\ bt.op = "maxSum") =>
    /\ rootNode = Null => bt.ret = <<0>>
    /\ rootNode # Null => bt.ret = <<BestPathSum>>
    /\ (rootNode # Null /\ \A n \in DOMAIN heap : ValueAt(n) < 0) =>
         bt.ret = <<Largest({ValueAt(n) : n \in DOMAIN heap})>>

C15_Witness ==
  /\ bt.pc = "returned"
  /\ bt.op = "maxSum"
  /\ bt.impl = 1
  /\ DOMAIN heap = {1, 2, 3}
  /\ ValueAt(1) = 0 - 1
  /\ ValueAt(2) = 2
  /\ ValueAt(3) = 2
  /\ bt.ret = <<3>>

\* The smallest value of the tree above the lower bound, null when none is.
SmallestAbove(lowerBound) ==
  LET above == {ValueAt(n) : n \in {m \in DOMAIN heap : ValueAt(m) > lowerBound}}
  IN IF rootNode = Null \/ above = {} THEN NullValue ELSE <<Smallest(above)>>

\* C16: nextLarger(lowerBound) of the first class returns the smallest value
\* of the tree that is larger than lowerBound, and null when there is none.
C16_NextLargerIsSmallestAbove ==
  (bt.pc = "returned" /\ bt.op = "nextLarger" /\ bt.impl = 1) =>
    bt.ret = SmallestAbove(bt.lowerBound)

\* C17: lowestCommonAncestor(node1, node2) of the first class, on two nodes
\* of the tree, returns the deepest node with both in its subtree.
C17_DeepestCommonAncestorFirst ==
  (/\ bt.pc = "returned"
   /\ bt.op = "lowestCommonAncestor"
   /\ bt.impl = 1
   /\ bt.node1 \in DOMAIN heap
   /\ bt.node2 \in DOMAIN heap)
  => bt.ret = <<Deepest(UpFrom(bt.node1) \cap UpFrom(bt.node2))>>

\* C18: lowestCommonAncestor(node1, node2) of the second class returns the
\* deepest common ancestor-or-self of two nodes of the tree, and null when an
\* argument is no node of the tree or the tree is empty.
C18_DeepestCommonAncestorSecond ==
  (bt.pc = "returned" /\ bt.op = "lowestCommonAncestor" /\ bt.impl = 2) =>
    IF rootNode # Null /\ bt.node1 \in DOMAIN heap /\ bt.node2 \in DOMAIN heap
    THEN bt.ret = <<Deepest(UpFrom(bt.node1) \cap UpFrom(bt.node2))>>
    ELSE bt.ret = NullValue

C18_Witness ==
  /\ bt.pc = "returned"
  /\ bt.op = "lowestCommonAncestor"
  /\ bt.impl = 2
  /\ DOMAIN heap = {1, 2, 4}
  /\ ValueAt(2) = ValueAt(1)
  /\ bt.node1 = 4
  /\ bt.node2 = 2
  /\ bt.ret = <<2>>

\* The places of a tree and what stands there: the root at 1, the children
\* of place i at 2i and 2i + 1.
RECURSIVE Laid(_, _, _)
Laid(nodes, n, place) ==
  IF n = Null THEN {}
  ELSE {<<place, IF bt.impl = 1 THEN nodes[n].val ELSE nodes[n].value>>}
       \cup Laid(nodes, nodes[n].left, 2 * place)
       \cup Laid(nodes, nodes[n].right, 2 * place + 1)

\* The tree deserialize made has the shape and the values of the tree
\* serialize was given.
RoundTripped == Laid(bt.made.nodes, bt.made.root, 1) = Laid(heap, rootNode, 1)

\* C19 as stated: deserialize(serialize(tree)) has the shape and the values
\* of the tree, for every tree of numbers.
C19_RoundTripOfNumbers ==
  (bt.pc = "returned" /\ bt.op = "deserialize") => RoundTripped

\* C19, amended: deserialize(serialize(tree)) has the shape and the values
\* of the tree, for every tree of finite numbers and for the empty tree, in
\* both classes.
C19_RoundTripOfFiniteNumbers ==
  (bt.pc = "returned" /\ bt.op = "deserialize" /\ FiniteTree(bt.impl, heap)) =>
    RoundTripped

C19_Witness ==
  /\ bt.pc = "returned"
  /\ bt.op = "deserialize"
  /\ bt.impl = 2
  /\ DOMAIN heap = {1, 3, 6}
  /\ ValueAt(3) = 0 - 3
  /\ FiniteTree(bt.impl, heap)
  /\ Len(bt.made.nodes) = 3
  /\ bt.made.nodes[2].value = <<0 - 3>>
  /\ bt.made.nodes[1].left = 0
  /\ bt.made.nodes[2].left = 3

\* The level-order values from node 1 on with every absent child that comes
\* before the last node written as 'null', between '[' and ']'.
RECURSIVE LevelOrderTokens(_, _)
LevelOrderTokens(place, last) ==
  IF place > last THEN <<>>
  ELSE (IF place \in DOMAIN heap THEN <<NumberString(ValueAt(place))>>
        ELSE IF place \div 2 \in DOMAIN heap THEN << <<"n", "u", "l", "l">> >>
        ELSE <<>>)
       \o LevelOrderTokens(place + 1, last)

RECURSIVE Commas(_)
Commas(tokens) ==
  IF Len(tokens) = 0 THEN <<>>
  ELSE IF Len(tokens) = 1 THEN tokens[1]
  ELSE tokens[1] \o <<",">> \o Commas(Tail(tokens))

\* C20: serialize of the second class writes the level-order values between
\* '[' and ']', separated by commas, with 'null' for every absent child
\* before the last node and nothing after the last node.
C20_NullTokensForGaps ==
  (/\ bt.pc = "returned"
   /\ bt.op = "serialize"
   /\ bt.impl = 2
   /\ rootNode # Null
   /\ FiniteTree(bt.impl, heap))
  => bt.text = <<"[">>
               \o Commas(LevelOrderTokens(1, Largest(DOMAIN heap)))
               \o <<"]">>

\* The leaves of the tree: the nodes without a child.
Leaves == {n \in DOMAIN heap : heap[n].left = Null /\ heap[n].right = Null}

\* C21: minDepth returns the number of nodes on the shortest path from the
\* root to a leaf, 1 for a single-node tree and 0 for an empty tree.
C21_MinDepthIsShortestLeafPath ==
  (bt.pc = "returned" /\ bt.op = "minDepth") =>
    /\ rootNode = Null => bt.ret = <<0>>
    /\ rootNode # Null =>
         bt.ret = <<Smallest({Cardinality(UpFrom(n)) : n \in Leaves})>>
    /\ Cardinality(DOMAIN heap) = 1 => bt.ret = <<1>>

C21_Witness ==
  /\ bt.pc = "returned"
  /\ bt.op = "minDepth"
  /\ DOMAIN heap = {1, 2, 3, 4}
  /\ bt.ret = <<2>>

\* C22: areCousins(node1, node2) is true exactly when both are nodes of the
\* tree, at the same depth, with different parents; so it is false for a node
\* and itself, for the root, and for a node outside the tree.
C22_CousinsSameDepthOtherParent ==
  (bt.pc = "returned" /\ bt.op = "areCousins") =>
    /\ bt.ret = << /\ bt.node1 \in DOMAIN heap
                   /\ bt.node2 \in DOMAIN heap
                   /\ Cardinality(UpFrom(bt.node1)) = Cardinality(UpFrom(bt.node2))
                   /\ ParentIn(bt.node1) # ParentIn(bt.node2) >>
    /\ (\/ bt.node1 = bt.node2
        \/ rootNode \in {bt.node1, bt.node2}
        \/ bt.node1 \notin DOMAIN heap
        \/ bt.node2 \notin DOMAIN heap) => bt.ret = <<FALSE>>

C22_Witness ==
  /\ bt.pc = "returned"
  /\ bt.op = "areCousins"
  /\ bt.node1 \in DOMAIN heap
  /\ bt.node2 \in DOMAIN heap
  /\ ParentIn(bt.node1) # ParentIn(bt.node2)
  /\ bt.ret = <<TRUE>>

\* The placed nodes with exactly one binary child.
SingleChildParents ==
  {n \in PlacedNodes : (heap[n].left = Null) # (heap[n].right = Null)}

OnlyChild(n) == IF heap[n].left # Null THEN heap[n].left ELSE heap[n].right

\* C23: in the polymorphic renderer the only binary child of a node is
\* placed at the node's own x, and every row strictly between the two text
\* rows holds '|' in the node's column.
C23_SingleChildBelowItsParent ==
  (version = 1 /\ rootNode # Null) =>
    /\ pc \in {"size", "lines", "serialize", "done"} =>
         \A n \in SingleChildParents :
           /\ OnlyChild(n) \in PlacedNodes
           /\ Placed(OnlyChild(n)).x = Placed(n).x
    /\ pc \in {"serialize", "done"} =>
         \A n \in SingleChildParents :
           \A y \in (Placed(n).y + 1)..(Placed(OnlyChild(n)).y - 1) :
             canvas[y][Placed(n).x] = "|"

C23_Witness ==
  /\ pc = "done"
  /\ version = 1
  /\ DOMAIN heap = {1, 3}
  /\ heap[1].right = 3
  /\ Placed(3).y = Placed(1).y + 3
  /\ canvas[1][Placed(1).x] = "|"
  /\ canvas[2][Placed(1).x] = "|"


\* The children the renderer in use lays out below a placed node.
KidsOf(n) == ChildrenOf(version, heap, n)

HasKid(p, c) == \E i \in 1..Len(KidsOf(p)) : KidsOf(p)[i] = c

\* The (parent, child) pairs of the placed tree.
PlacedEdges ==
  {e \in PlacedNodes \X PlacedNodes : HasKid(e[1], e[2])}

\* The number of edges between the root and a placed node.
RECURSIVE LevelOf(_)
LevelOf(n) ==
  IF n = rootNode \/ ~(\E p \in PlacedNodes : HasKid(p, n)) THEN 0
  ELSE 1 + LevelOf(CHOOSE p \in PlacedNodes : HasKid(p, n))

\* The largest level of the placed tree.
DeepestLevel == Largest({LevelOf(n) : n \in PlacedNodes})

\* The half-span the layout hands to the children of a node at `level`:
\* the initial offset, passed through one halving per level.
RECURSIVE HalfSpan(_, _)
HalfSpan(depth, level) ==
  IF level = 0 THEN initialXOffset(depth)
  ELSE xOffsetForNextLevel(HalfSpan(depth, level - 1))

PositionsKnown == rootNode # Null /\ pc \in {"size", "lines", "serialize", "done"}

\* C24: the half-span of the children of a node at depth d of a tree of
\* depth D is 2^(D-d), at least 2, and it is the span the layout used: the
\* children stand that many line rows below the node, and the two binary
\* children that many columns to its left and right.
C24_HalfSpanHalvesPerLevel ==
  PositionsKnown =>
    \A e \in PlacedEdges :
      LET d == LevelOf(e[1])
          span == HalfSpan(actualFullTreeDepth, d)
      IN /\ actualFullTreeDepth = DeepestLevel
         /\ span = Pow2(DeepestLevel - d)
         /\ span >= 2
         /\ d > 0 => 2 * span = HalfSpan(actualFullTreeDepth, d - 1)
         /\ Placed(e[2]).y = Placed(e[1]).y + span + 1
         /\ (heap[e[1]].left # Null /\ heap[e[1]].right # Null) =>
              /\ Placed(heap[e[1]].left).x = Placed(e[1]).x - span
              /\ Placed(heap[e[1]].right).x = Placed(e[1]).x + span

C24_Witness ==
  /\ pc = "done"
  /\ rootNode # Null
  /\ DeepestLevel = 2
  /\ \E e \in PlacedEdges :
       /\ LevelOf(e[1]) = 1
       /\ Placed(e[2]).y = Placed(e[1]).y + 3
  /\ \E e \in PlacedEdges :
       /\ LevelOf(e[1]) = 0
       /\ Placed(e[2]).y = Placed(e[1]).y + 5

\* C25: a child's row is its parent's row + max(1, offset) + 1, at least
\* two rows below; the line loop never meets a child that is not strictly
\* below its parent, and each line has at least one row, whose last cell
\* (above the child) holds a line glyph in the finished canvas.
C25_ChildAtLeastTwoRowsBelow ==
  PositionsKnown =>
    /\ \A e \in PlacedEdges :
         /\ Placed(e[2]).y =
              Placed(e[1]).y + Max(1, HalfSpan(DeepestLevel, LevelOf(e[1]))) + 1
         /\ Placed(e[2]).y >= Placed(e[1]).y + 2
    /\ (pc = "lines" /\ pendingEdges # <<>>) =>
         LET edge == Head(pendingEdges)
         IN /\ ~(Placed(edge.child).y <= Placed(edge.parent).y)
            /\ Placed(edge.parent).y + 1 <= Placed(edge.child).y - 1
    /\ pc \in {"serialize", "done"} =>
         \A e \in PlacedEdges :
           canvas[Placed(e[2]).y - 1][Placed(e[2]).x] \in LineGlyphs

C25_Witness ==
  /\ pc = "done"
  /\ rootNode # Null
  /\ \E e \in PlacedEdges :
       /\ Placed(e[2]).y = Placed(e[1]).y + 3
       /\ canvas[Placed(e[2]).y - 1][Placed(e[2]).x] = "/"
       /\ canvas[Placed(e[2]).y - 2][Placed(e[2]).x + 1] = "/"

\* The pending pair whose line is rasterized next (not a vertical run).
SlantedNext ==
  /\ rootNode # Null
  /\ pc = "lines"
  /\ pendingEdges # <<>>
  /\ (version = 1 =>
        Placed(Head(pendingEdges).child).x # Placed(Head(pendingEdges).parent).x)

\* drawLineOnCanvas as the line loop calls it for the next pending pair.
NextLine ==
  LET a == LineArguments(version, Head(pendingEdges), nodePositions, canvasWidth)
  IN drawLineOnCanvas(a.x1, a.y1, a.x2, a.y2, a.char, canvas, nodeTextCells,
                      canvasWidth, canvasHeight)

CanvasCorners == {0, canvasWidth - 1} \X {0, canvasHeight - 1}

\* C26: drawLineOnCanvas ends within 2 * canvasWidth * canvasHeight
\* iterations (between any two corners of the canvas, too), and for every
\* edge of a rendered tree it ends at the end point, not at the cap.
C26_LineEndsAtEndPoint ==
  SlantedNext =>
    /\ NextLine.exit = "end"
    /\ NextLine.iterations <= 2 * canvasWidth * canvasHeight
    /\ NextLine.canvas = DrawConnection(version, Head(pendingEdges), nodePositions,
                                        canvas, nodeTextCells, canvasWidth,
                                        canvasHeight)
    /\ \A from \in CanvasCorners, to \in CanvasCorners :
         LET r == drawLineOnCanvas(from[1], from[2], to[1], to[2], "/", canvas,
                                   nodeTextCells, canvasWidth, canvasHeight)
         IN r.exit = "end" /\ r.iterations <= 2 * canvasWidth * canvasHeight

C26_Witness ==
  /\ SlantedNext
  /\ NextLine.exit = "end"
  /\ NextLine.iterations = 2
  /\ NextLine.canvas # canvas

\* The first and the last column of a placed node's text.
FirstTextColumn(n) == TextStartX(Placed(n))

LastTextColumn(n) == TextStartX(Placed(n)) + Len(Placed(n).text) - 1

OnCanvas(x, y) == InCanvas(x, y, canvasWidth, canvasHeight)

Shifted == rootNode # Null /\ pc \in {"lines", "serialize", "done"}

\* C27: after the shift the leftmost text cell is at column 1, the canvas is
\* two columns wider than the last text column and one row higher than the
\* last node row; every text cell lies inside the canvas, and so do the
\* unclamped first cell and the last cell of every line, between which the
\* rasterization stays.
C27_EverythingInsideCanvas ==
  Shifted =>
    /\ Smallest({FirstTextColumn(n) : n \in PlacedNodes}) = leftPadding
    /\ canvasWidth = Largest({LastTextColumn(n) : n \in PlacedNodes}) + 2
    /\ canvasHeight = Largest({Placed(n).y : n \in PlacedNodes}) + 1
    /\ \A n \in PlacedNodes :
         \A x \in FirstTextColumn(n)..LastTextColumn(n) :
           /\ OnCanvas(x, Placed(n).y)
           /\ <<x, Placed(n).y>> \in nodeTextCells
    /\ \A e \in PlacedEdges :
         /\ OnCanvas(Placed(e[1]).x - 1, Placed(e[1]).y + 1)
         /\ OnCanvas(Placed(e[1]).x + 1, Placed(e[1]).y + 1)
         /\ OnCanvas(Placed(e[2]).x, Placed(e[2]).y - 1)
    /\ pc \in {"serialize", "done"} =>
         \A n \in PlacedNodes :
           \A x \in FirstTextColumn(n)..LastTextColumn(n) :
             CanvasAt(<<x, Placed(n).y>>) \in TextCharsAt(<<x, Placed(n).y>>)

C27_Witness ==
  /\ pc = "done"
  /\ rootNode # Null
  /\ Cardinality(PlacedNodes) = 3
  /\ canvasHeight = 4
  /\ \E n \in PlacedNodes : FirstTextColumn(n) = 1 /\ Placed(n).y = 3
  /\ \E n \in PlacedNodes : LastTextColumn(n) = canvasWidth - 2 /\ Len(Placed(n).text) > 1

\* The placed nodes the polymorphic renderer lays out through their
\* children sequence: no binary child, and a children array with entries.
ArrayParents ==
  {n \in PlacedNodes :
     /\ heap[n].left = Null
     /\ heap[n].right = Null
     /\ heap[n].isArray
     /\ Len(heap[n].children) > 0}

\* x is the integer nearest to num / den, a tie going up (den > 0).
IsRounded(x, num, den) == 2 * den * x - 2 * num \in (1 - den)..den

\* C28: of k >= 2 children of the children sequence, child i (0-based) is at
\* round(parentX + (2i/(k-1) - 1) * offset): the first at parentX - offset,
\* the last at parentX + offset, none left of its predecessor; a single
\* child is at parentX.
C28_ChildrenSpreadEvenly ==
  (PositionsKnown /\ version = 1) =>
    \A p \in ArrayParents :
      LET kids == heap[p].children
          k == Len(kids)
          offset == HalfSpan(actualFullTreeDepth, LevelOf(p))
          x(i) == Placed(kids[i + 1]).x
          parentX == Placed(p).x
      IN /\ \A i \in 0..(k - 1) : kids[i + 1] \in PlacedNodes
         /\ k = 1 => x(0) = parentX
         /\ k >= 2 =>
              /\ \A i \in 0..(k - 1) :
                   IsRounded(x(i), parentX * (k - 1) + (2 * i - (k - 1)) * offset,
                             k - 1)
              /\ x(0) = parentX - offset
              /\ x(k - 1) = parentX + offset
              /\ \A i \in 1..(k - 1) : x(i - 1) <= x(i)

C28_Witness ==
  /\ pc = "done"
  /\ version = 1
  /\ rootNode # Null
  /\ rootNode \in ArrayParents
  /\ Len(heap[rootNode].children) = 4
  /\ Placed(heap[rootNode].children[2]).x = Placed(rootNode).x - 1
  /\ Placed(heap[rootNode].children[3]).x = Placed(rootNode).x + 1
  /\ Placed(heap[rootNode].children[4]).x = Placed(rootNode).x + 2

\* The cells reserved for the text of a placed node.
TextSpan(n) ==
  {<<x, Placed(n).y>> : x \in FirstTextColumn(n)..LastTextColumn(n)}

\* C29: no canvas cell is reserved for the text of two different nodes, and
\* the body shows every node's whole display text in the node's span.
C29_TextSpansDisjoint ==
  Shifted =>
    /\ \A n, m \in PlacedNodes : n # m => TextSpan(n) \cap TextSpan(m) = {}
    /\ pc \in {"serialize", "done"} =>
         \A n \in PlacedNodes :
           \A k \in 1..Len(Placed(n).text) :
             canvas[Placed(n).y][FirstTextColumn(n) + k - 1] = Placed(n).text[k]

\* The nodes of the subtree of a node of the tree (none for no node).
RECURSIVE SubtreeOf(_)
SubtreeOf(n) ==
  IF n = Null THEN {}
  ELSE {n} \cup SubtreeOf(heap[n].left) \cup SubtreeOf(heap[n].right)

\* How far a stack entry is through its phases: 0 on entry, 1 once the left
\* subtree was taken up, 2 once the right one was.
PhaseRank(entry) ==
  IF bt.impl = 1
  THEN (CASE entry.visitState = "visiting" -> 0
          [] entry.visitState = "left" -> 1
          [] entry.visitState = "right" -> 2)
  ELSE (CASE entry.phase = visitLeft -> 0
          [] entry.phase = visitRight -> 1
          [] entry.phase = processNode -> 2)

InMaxSumLoop == bt.op = "maxSum" /\ bt.pc = "loop"

ComputedBefore(i) == {bt.computed[j] : j \in 1..(i - 1)}

ComputedNodes == ComputedBefore(Len(bt.computed) + 1)

\* The stack holds a path from the root: each entry is the left child of an
\* entry that has taken up its left subtree, or the right child of one that
\* has taken up its right subtree.
StackIsRootPath ==
  /\ Len(bt.stack) > 0 => bt.stack[1].node = rootNode
  /\ \A i \in 2..Len(bt.stack) :
       LET above == bt.stack[i - 1]
       IN \/ bt.stack[i].node = heap[above.node].left /\ PhaseRank(above) = 1
          \/ bt.stack[i].node = heap[above.node].right /\ PhaseRank(above) = 2

\* Each node is computed at most once, after every other node of its
\* subtree, and not while it is on the stack; the entry on top has had
\* exactly the subtrees of its finished phases computed.
ComputedInPostOrder ==
  /\ \A i, j \in 1..Len(bt.computed) : bt.computed[i] = bt.computed[j] => i = j
  /\ \A i \in 1..Len(bt.computed) :
       SubtreeOf(bt.computed[i]) \ {bt.computed[i]} \subseteq ComputedBefore(i)
  /\ \A i \in 1..Len(bt.stack) : bt.stack[i].node \notin ComputedNodes
  /\ Len(bt.stack) > 0 =>
       LET top == bt.stack[Len(bt.stack)]
           leftNodes == SubtreeOf(heap[top.node].left)
           rightNodes == SubtreeOf(heap[top.node].right)
       IN /\ PhaseRank(top) = 0 => (leftNodes \cup rightNodes) \cap ComputedNodes = {}
          /\ PhaseRank(top) = 1 =>
               leftNodes \subseteq ComputedNodes /\ rightNodes \cap ComputedNodes = {}
          /\ PhaseRank(top) = 2 => (leftNodes \cup rightNodes) \subseteq ComputedNodes

MaxSumWalk ==
  /\ InMaxSumLoop => StackIsRootPath /\ ComputedInPostOrder
  /\ (bt.op = "maxSum" /\ bt.pc = "returned" /\ rootNode # Null) =>
       /\ bt.stack = <<>>
       /\ ComputedNodes = SubtreeOf(rootNode)
       /\ Len(bt.computed) = Cardinality(SubtreeOf(rootNode))

SameBelow(before, after, n) ==
  \A i \in 1..n :
    /\ after[i].node = before[i].node
    /\ PhaseRank(after[i]) = PhaseRank(before[i])

\* One turn of the loop: the entry on top moves to its next phase, and a new
\* entry starts in the first phase; or the entry on top, in its last phase,
\* has its path sum computed and is popped.
MaxSumStep ==
  (InMaxSumLoop /\ bt'.pc = "loop") =>
    LET before == bt.stack
        after == bt'.stack
        top == Len(before)
    IN IF PhaseRank(before[top]) < 2
       THEN /\ Len(after) \in {top, top + 1}
            /\ SameBelow(before, after, top - 1)
            /\ after[top].node = before[top].node
            /\ after[top] # before[top]
            /\ (IF bt.impl = 1
                THEN <<before[top].visitState, after[top].visitState>>
                       \in {<<"visiting", "left">>, <<"left", "right">>}
                ELSE <<before[top].phase, after[top].phase>>
                       \in {<<visitLeft, visitRight>>, <<visitRight, processNode>>})
            /\ Len(after) = top + 1 =>
                 (IF bt.impl = 1 THEN after[top + 1].visitState = "visiting"
                  ELSE after[top + 1].phase = visitLeft)
            /\ bt'.computed = bt.computed
       ELSE /\ Len(after) = top - 1
            /\ SameBelow(before, after, top - 1)
            /\ bt'.computed = Append(bt.computed, before[top].node)

\* C30: the stack of maxSum always holds a root-to-current-node path; every
\* entry goes through its phases in order, one per turn; a node's path sum
\* is computed once, after those of all nodes of its subtrees; and the loop
\* comes to its end, with an empty stack and every node computed.
C30_MaxSumIsPostOrderWalk ==
  /\ []MaxSumWalk
  /\ [][MaxSumStep]_vars
  /\ InMaxSumLoop ~> (bt.op = "maxSum" /\ bt.pc = "returned" /\ bt.stack = <<>>)

C30_Witness ==
  /\ bt.op = "maxSum"
  /\ bt.pc = "returned"
  /\ bt.stack = <<>>
  /\ rootNode # Null
  /\ Cardinality(DOMAIN heap) = 5
  /\ heap[1].left # Null
  /\ heap[1].right # Null
  /\ bt.computed[Len(bt.computed)] = rootNode
  /\ bt.computed[4] = heap[1].right
====
